---- MODULE Spec2Model ----
(***************************************************************************)
(* Model of the resume scoring pipeline of job-match-api:                  *)
(*   services/ats_analyzer.py   the rule-based ATS analyzer                *)
(*   services/resume_scorer.py  score_resume, the validator, the fallback  *)
(*                                                                         *)
(* A resume text is a sequence of items.  An item [s |-> c, n |-> k] is    *)
(* the chunk c written k times, the copies separated by one space.  Two    *)
(* adjacent word items are separated by one space; the whitespace items    *)
(* (a newline, a run of four spaces) are written as they are.  Non-ASCII   *)
(* glyphs are written <STAR> (U+2605) and <BULLET> (U+2022), the three     *)
(* backquotes of a Markdown code fence <FENCE>.                            *)
(***************************************************************************)
EXTENDS Integers, Sequences, FiniteSets, TLC

VARIABLES
    pc,               \* position of the modelled call
    resume_text,      \* the text given to analyze / score_resume
    job_description,  \* score_resume's optional argument ("None" when absent)
    analyzer,         \* the ATSAnalyzer instance: base_score, issues, recommendations
    ats_results,      \* what analyze returned
    content,          \* response.content of the external call
    result,           \* the dictionary handed to _validate_and_normalize_result
    outcome,          \* what the modelled call returned or raised
    hash_seed,        \* the process's string hashing (PYTHONHASHSEED), fixed at start
    invoked,          \* what chain.invoke did: "no" call yet, "returned", "raised"
    reports,          \* what the calls of ATSAnalyzer.analyze returned, with their texts
    sessions,         \* ResumeChatService.sessions: session id -> analysis, memory
    memories,         \* the ConversationBufferMemory objects ever made: their messages
    turns,            \* the chat turns in progress or done, one per request
    request           \* the request at an /analyze-resume endpoint

None == "None"

\* the state of the scorer, of the chat service, of the endpoints
scorerVars ==
    <<pc, resume_text, job_description, analyzer, ats_results, content, result, outcome,
      hash_seed, invoked, reports>>

chatVars == <<sessions, memories, turns>>

appVars == <<request>>

vars == <<scorerVars, chatVars, appVars>>

\* no chat turn and no session
ChatIdle == sessions = <<>> /\ memories = <<>> /\ turns = <<>>

\* no request at the endpoints
AppIdle == request = None


\* ------------------------------------------------------------------ bounds

MaxTokens == 3

\* keys of a payload, the entries of a nested section_scores object included
MaxKeys == 3

\* the same, of the payloads the external call answers score_resume with
MaxAnswerKeys == 1

\* calls of the chat service made one after the other
MaxTurns == 3

\* requests to the chat service served at the same time
MaxRequests == 2

\* pages of an uploaded document
MaxPages == 2

\* analyses made by one deployment of the Rule Engine
MaxAnalyses == 3

\* parts (words and line breaks) of a text given to the multi-column rule
MaxLines == 4

\* calls in the life of the sessions of a chat service
MaxCalls == 3

\* ------------------------------------------------------------ text inputs

NL == [s |-> "\n", n |-> 1]

GAP == [s |-> "    ", n |-> 1]

Word(c) == [s |-> c, n |-> 1]

Filler(k) == [s |-> "lorem", n |-> k]

FillerCounts == {1, 50, 100, 1500}

WordChunks ==
    { "Experience Education Skills", "Experience", "Skills", "Summary",
      "jo@ex.com 555-123-4567", "jo@ex.com", "2020",
      "<BULLET>", "<STAR>", "Led managed built" }

Items ==
    {NL, GAP} \cup {Filler(k) : k \in FillerCounts} \cup {Word(c) : c \in WordChunks}

RECURSIVE SeqsUpTo(_, _)
SeqsUpTo(S, k) ==
    IF k = 0 THEN {<<>>}
    ELSE LET shorter == SeqsUpTo(S, k - 1)
         IN  shorter \cup {Append(q, x) : q \in {r \in shorter : Len(r) = k - 1}, x \in S}

Texts == SeqsUpTo(Items, MaxTokens)

\* ------------------------------------------- what Python sees in a chunk

IsSpace(item) == item.s \in {"\n", "    "}

\* len(chunk)
ChunkLen(c) ==
    CASE c = "\n" -> 1
      [] c = "    " -> 4
      [] c = "lorem" -> 5
      [] c = "Experience Education Skills" -> 27
      [] c = "Work History Education Skills" -> 29
      [] c = "Experience" -> 10
      [] c = "Skills" -> 6
      [] c = "Summary" -> 7
      [] c = "jo@ex.com 555-123-4567" -> 22
      [] c = "jo@ex.com" -> 9
      [] c = "2020" -> 4
      [] c = "<BULLET>" -> 1
      [] c = "<STAR>" -> 1
      [] c = "Led managed built" -> 17

\* len(chunk.split())
ChunkWords(c) ==
    CASE c \in {"\n", "    "} -> 0
      [] c \in {"Experience Education Skills", "Led managed built"} -> 3
      [] c = "jo@ex.com 555-123-4567" -> 2
      [] c = "Work History Education Skills" -> 4
      [] OTHER -> 1

\* the searched substrings (section names, action verbs) found in chunk.lower()
ChunkSubstrings(c) ==
    CASE c = "Experience Education Skills" -> {"experience", "education", "skills"}
      [] c = "Work History Education Skills" -> {"work history", "education", "skills"}
      [] c = "Experience" -> {"experience"}
      [] c = "Skills" -> {"skills"}
      [] c = "Summary" -> {"summary"}
      [] c = "Led managed built" -> {"led", "managed", "built"}
      [] OTHER -> {}

\* the searched single characters found in the chunk
ChunkChars(c) ==
    CASE c = "<BULLET>" -> {"<BULLET>"}
      [] c = "<STAR>" -> {"<STAR>"}
      [] c = "jo@ex.com 555-123-4567" -> {"-"}
      [] OTHER -> {}

ChunkHasEmail(c) == c \in {"jo@ex.com 555-123-4567", "jo@ex.com"}

ChunkHasPhone(c) == c = "jo@ex.com 555-123-4567"

ChunkHasYear(c) == c = "2020"

ChunkHasDigit(c) == c \in {"jo@ex.com 555-123-4567", "2020"}

\* ---------------------------------------------------- string operations

RECURSIVE SumOver(_, _)
SumOver(f, n) == IF n = 0 THEN 0 ELSE f[n] + SumOver(f, n - 1)

\* len(text.split())
WordCount(text) ==
    SumOver([i \in 1..Len(text) |-> ChunkWords(text[i].s) * text[i].n], Len(text))

\* needle in text (needle a lower-case word searched in text.lower())
InLower(needle, text) == \E i \in 1..Len(text) : needle \in ChunkSubstrings(text[i].s)

\* char in text
CharIn(char, text) == \E i \in 1..Len(text) : char \in ChunkChars(text[i].s)

\* len() of one item as written
ItemLen(item) == item.n * ChunkLen(item.s) + (item.n - 1)

\* re.search(r'\s{4,}', text): a run of whitespace items at least 4 characters long
HasSpaceRun(text) ==
    \E i \in 1..Len(text) : \E j \in i..Len(text) :
        /\ \A k \in i..j : IsSpace(text[k])
        /\ SumOver([k \in 1..(j - i + 1) |-> ItemLen(text[i + k - 1])], j - i + 1) >= 4

\* text.split('\n')
RECURSIVE SplitLines(_)
SplitLines(text) ==
    IF \A i \in 1..Len(text) : text[i] # NL THEN <<text>>
    ELSE LET first == CHOOSE i \in 1..Len(text) :
                          text[i] = NL /\ \A j \in 1..(i - 1) : text[j] # NL
         IN  <<SubSeq(text, 1, first - 1)>> \o SplitLines(SubSeq(text, first + 1, Len(text)))

\* line.strip()
RECURSIVE Strip(_)
Strip(line) ==
    IF line = <<>> THEN line
    ELSE IF IsSpace(line[1]) THEN Strip(Tail(line))
    ELSE IF IsSpace(line[Len(line)]) THEN Strip(SubSeq(line, 1, Len(line) - 1))
    ELSE line

\* len(s) of the string a sequence of items stands for
StrLen(items) ==
    SumOver([i \in 1..Len(items) |-> ItemLen(items[i])], Len(items))
    + Cardinality({i \in 1..(Len(items) - 1) : ~IsSpace(items[i]) /\ ~IsSpace(items[i + 1])})

\* ------------------------------------------------ services/ats_analyzer.py

PROBLEMATIC_CHARS == {"<STAR>", "<BULLET>"}

STANDARD_SECTIONS ==
    { "experience", "work experience", "employment", "professional experience",
      "education", "academic background",
      "skills", "technical skills", "core competencies",
      "summary", "professional summary", "objective",
      "certifications", "certificates",
      "projects", "portfolio" }

action_verbs ==
    { "led", "managed", "developed", "created", "implemented", "designed",
      "analyzed", "improved", "increased", "reduced", "built", "launched" }

\* ', '.join(found_chars): found_chars is a set of str, iterated in the order
\* the process's string hashing gives it
join(found_chars) ==
    IF found_chars = {"<STAR>"} THEN "<STAR>"
    ELSE IF found_chars = {"<BULLET>"} THEN "<BULLET>"
    ELSE IF hash_seed = 0 THEN "<STAR>, <BULLET>"
    ELSE "<BULLET>, <STAR>"

\* f"Special characters detected: {joined}"
SpecialCharactersIssue(joined) ==
    CASE joined = "<STAR>" -> "Special characters detected: <STAR>"
      [] joined = "<BULLET>" -> "Special characters detected: <BULLET>"
      [] joined = "<STAR>, <BULLET>" -> "Special characters detected: <STAR>, <BULLET>"
      [] joined = "<BULLET>, <STAR>" -> "Special characters detected: <BULLET>, <STAR>"

\* ATSAnalyzer.__init__
NewAnalyzer == [base_score |-> 100, issues |-> <<>>, recommendations |-> <<>>]

_deduct_points(self, points, issue, recommendation) ==
    [base_score |-> self.base_score - points,
     issues |-> Append(self.issues, issue),
     recommendations |-> Append(self.recommendations, recommendation)]

_add_bonus(self, points) == [self EXCEPT !.base_score = @ + points]

_check_length_below_50(self, text) ==
    LET word_count == WordCount(text)
    IN  IF word_count < 50
        THEN _deduct_points(self, 20, "Resume is too short (less than 100 words)",
                 "Add more detail about your experience, skills, and achievements. Aim for 300-800 words.")
        ELSE IF word_count > 1500
        THEN _deduct_points(self, 5, "Resume is very long (over 1500 words)",
                 "Consider condensing content. Most ATS and recruiters prefer resumes under 800 words.")
        ELSE self

_check_length(self, text) ==
    LET word_count == WordCount(text)
    IN  IF word_count < 100
        THEN _deduct_points(self, 20, "Resume is too short (less than 100 words)",
                 "Add more detail about your experience, skills, and achievements. Aim for 300-800 words.")
        ELSE IF word_count > 1500
        THEN _deduct_points(self, 5, "Resume is very long (over 1500 words)",
                 "Consider condensing content. Most ATS and recruiters prefer resumes under 800 words.")
        ELSE self

_check_special_characters(self, text) ==
    LET found_chars == {char \in PROBLEMATIC_CHARS : CharIn(char, text)}
    IN  IF found_chars # {}
        THEN _deduct_points(self, 5,
                 SpecialCharactersIssue(join(found_chars)),
                 "Replace special bullet points and symbols with standard characters (-, *, <BULLET>) or simple text.")
        ELSE self

_check_section_headers(self, text) ==
    LET has_experience ==
            \E section \in {"experience", "employment", "work history"} : InLower(section, text)
        has_education == InLower("education", text)
        has_skills == InLower("skills", text)
        s1 == IF ~has_experience
              THEN _deduct_points(self, 10,
                       "Missing standard 'Experience' or 'Work History' section",
                       "Add a clear 'Work Experience' or 'Professional Experience' section header.")
              ELSE self
        s2 == IF ~has_education
              THEN _deduct_points(s1, 5, "Missing 'Education' section",
                       "Add an 'Education' section even if it's brief. ATS often looks for this.")
              ELSE s1
    IN  IF ~has_skills
        THEN _deduct_points(s2, 10, "Missing 'Skills' section",
                 "Add a dedicated 'Skills' or 'Technical Skills' section with relevant keywords.")
        ELSE s2

_check_contact_info(self, text) ==
    LET has_email == \E i \in 1..Len(text) : ChunkHasEmail(text[i].s)
        has_phone == \E i \in 1..Len(text) : ChunkHasPhone(text[i].s)
        s1 == IF ~has_email
              THEN _deduct_points(self, 15, "No email address detected",
                       "Include a professional email address at the top of your resume.")
              ELSE _add_bonus(self, 5)
    IN  IF ~has_phone
        THEN _deduct_points(s1, 5, "No phone number detected",
                 "Include a phone number in your contact information.")
        ELSE s1

_check_formatting_indicators(self, text) ==
    LET s1 == IF HasSpaceRun(text)
              THEN _deduct_points(self, 10, "Detected potential tables or complex spacing",
                       "Avoid tables and multi-column layouts. Use simple, single-column text with bullet points.")
              ELSE self
        lines == SplitLines(text)
        very_short_lines ==
            Cardinality({i \in 1..Len(lines) :
                            0 < StrLen(Strip(lines[i])) /\ StrLen(Strip(lines[i])) < 20})
    IN  \* very_short_lines > len(lines) * 0.3
        IF 10 * very_short_lines > 3 * Len(lines)
        THEN _deduct_points(s1, 5,
                 "Many short lines detected (possible multi-column layout)",
                 "Use a single-column format. Multi-column resumes are hard for ATS to parse correctly.")
        ELSE s1

_check_file_structure(self, text) ==
    LET years == {i \in 1..Len(text) : ChunkHasYear(text[i].s)}
        s1 == IF years = {}
              THEN _deduct_points(self, 5, "No dates found in resume",
                       "Include dates for your work experience and education (e.g., 'Jan 2020 - Present').")
              ELSE self
        found_verbs == Cardinality({verb \in action_verbs : InLower(verb, text)})
    IN  IF found_verbs >= 3 THEN _add_bonus(s1, 5) ELSE s1

_check_standard_sections(self, text) ==
    LET sections_found == Cardinality({section \in STANDARD_SECTIONS : InLower(section, text)})
        s1 == IF sections_found >= 4 THEN _add_bonus(self, 10)
              ELSE IF sections_found >= 3 THEN _add_bonus(self, 5)
              ELSE self
    IN  IF CharIn("<BULLET>", text) \/ CharIn("-", text) \/ CharIn("*", text)
        THEN _add_bonus(s1, 5)
        ELSE s1

Max(a, b) == IF a >= b THEN a ELSE b

Min(a, b) == IF a <= b THEN a ELSE b

clamp_none(lo, hi, x) == x

\* max(lo, min(hi, x))
clamp(lo, hi, x) == Max(lo, Min(hi, x))

\* the analyzer instance after analyze(resume_text) ran its checks
RunChecks(text) ==
    LET s1 == _check_length(NewAnalyzer, text)
        s2 == _check_special_characters(s1, text)
        s3 == _check_section_headers(s2, text)
        s4 == _check_contact_info(s3, text)
        s5 == _check_formatting_indicators(s4, text)
        s6 == _check_file_structure(s5, text)
    IN  _check_standard_sections(s6, text)

\* the dictionary analyze returns, from the instance it leaves behind
Report(self) ==
    [ats_score |-> clamp(0, 100, self.base_score),
     ats_issues |-> self.issues,
     ats_recommendations |-> self.recommendations]

\* analyze_ats_compatibility(resume_text): a fresh analyzer, analyze
analyze_ats_compatibility(text) == Report(RunChecks(text))

\* ATSAnalyzer.analyze(resume_text) on the instance self: lines 55-57 set the
\* fields anew, then the checks run
analyze(self, text) ==
    LET s0 == [self EXCEPT !.base_score = 100, !.issues = <<>>, !.recommendations = <<>>]
        s1 == _check_length(s0, text)
        s2 == _check_special_characters(s1, text)
        s3 == _check_section_headers(s2, text)
        s4 == _check_contact_info(s3, text)
        s5 == _check_formatting_indicators(s4, text)
        s6 == _check_file_structure(s5, text)
    IN  _check_standard_sections(s6, text)

\* ------------------------------------------------- the analyzer on its own

InitATS ==
    /\ pc = "ats_start"
    /\ resume_text \in Texts
    /\ job_description = None
    /\ analyzer = NewAnalyzer
    /\ ats_results = None
    /\ content = None
    /\ result = None
    /\ outcome = None
    /\ hash_seed \in {0, 1}
    /\ invoked = "no"
    /\ reports = <<>>
    /\ ChatIdle
    /\ AppIdle

\* ATSAnalyzer.analyze(resume_text)
Analyze ==
    /\ pc = "ats_start"
    /\ pc' = "ats_done"
    /\ analyzer' = RunChecks(resume_text)
    /\ ats_results' = Report(analyzer')
    /\ reports' = Append(reports, [text |-> resume_text, report |-> ats_results'])
    /\ UNCHANGED <<resume_text, job_description, content, result, outcome, hash_seed>>
    /\ UNCHANGED <<invoked, chatVars, appVars>>

NextATS == Analyze

SpecATS == InitATS /\ [][NextATS]_vars

\* C4: for every text, analyze returns a score in 0..100 and as many
\* recommendations as issues.
C4_ScoreInRangeAndListsAligned ==
    pc = "ats_done" =>
        /\ ats_results.ats_score \in 0..100
        /\ Len(ats_results.ats_issues) = Len(ats_results.ats_recommendations)

\* C4 witness: an analysis whose raw score went above 100 and was clamped, and
\* one of the empty text, which collects issues.
C4_Witness ==
    /\ pc = "ats_done"
    /\ analyzer.base_score > 100
    /\ ats_results.ats_score = 100
    /\ Len(ats_results.ats_issues) >= 1

\* ------------------------------------------- what json.loads can produce

JNull == [t |-> "null"]                \* None

JBool(b) == [t |-> "bool", b |-> b]     \* True, False (a bool is an int in Python)

JInt(i) == [t |-> "int", i |-> i]

JFloat(f) == [t |-> "float", f |-> f]   \* the literal, as text

JStr(s) == [t |-> "str", s |-> s]

JList(l) == [t |-> "list", l |-> l]

JDict(d) == [t |-> "dict", d |-> d]

EmptyDict == [k \in {} |-> JNull]

\* isinstance(x, int): true of int and of its subclass bool
isinstance_int(x) == x.t \in {"int", "bool"}

isinstance_list(x) == x.t = "list"

\* the number a Python int or bool compares as
IntValue(x) == IF x.t = "bool" THEN (IF x.b THEN 1 ELSE 0) ELSE x.i

InvalidScoreNoUpperBound(x) == ~isinstance_int(x) \/ ~(0 <= IntValue(x))

\* not isinstance(x, int) or not (0 <= x <= 100)
InvalidScore(x) == ~isinstance_int(x) \/ ~(0 <= IntValue(x) /\ IntValue(x) <= 100)

\* d.get(key, default)
Get(d, key, default) == IF key \in DOMAIN d THEN d[key] ELSE default

PrefixOneMore(l, limit) == SubSeq(l, 1, Min(limit + 1, Len(l)))

\* x[:limit]
Prefix(l, limit) == SubSeq(l, 1, Min(limit, Len(l)))

Returned(value) == [raised |-> FALSE, value |-> value]

Raised(exc) == [raised |-> TRUE, exc |-> exc]

\* --------------------- ResumeScorer._validate_and_normalize_result(result)

required_sections == <<"skills", "experience", "clarity", "keywords">>

\* one pass of the loop body over a dict section_scores
SectionStep(section_scores, section, overall_score) ==
    IF section \notin DOMAIN section_scores
    THEN (section :> overall_score) @@ section_scores
    ELSE IF InvalidScore(section_scores[section])
    THEN [section_scores EXCEPT ![section] = overall_score]
    ELSE section_scores

RECURSIVE SectionLoop(_, _, _)
SectionLoop(section_scores, i, overall_score) ==
    IF i > Len(required_sections) THEN section_scores
    ELSE SectionLoop(SectionStep(section_scores, required_sections[i], overall_score),
                     i + 1, overall_score)

\* The loop on a section_scores that is no dict raises TypeError in its first
\* pass: None and numbers do not support "in"; a list or a str answers "in"
\* and then fails on section_scores[section], read or assigned.
NormalizeSections(section_scores, overall_score) ==
    IF section_scores.t = "dict"
    THEN Returned(JDict(SectionLoop(section_scores.d, 1, overall_score)))
    ELSE Raised("TypeError")

\* value = result.get(key, []); [] unless a list; value[:limit]
NormalizeList(result_, key, limit) ==
    LET value == Get(result_, key, JList(<<>>))
    IN  IF ~isinstance_list(value) THEN JList(<<>>) ELSE JList(Prefix(value.l, limit))

_validate_and_normalize_result(result_) ==
    LET got == Get(result_, "overall_score", JInt(0))
        overall_score == IF InvalidScore(got) THEN JInt(50) ELSE got
        section_scores ==
            NormalizeSections(Get(result_, "section_scores", JDict(EmptyDict)), overall_score)
        strengths == NormalizeList(result_, "strengths", 5)
        weaknesses == NormalizeList(result_, "weaknesses", 5)
        recommendations == NormalizeList(result_, "recommendations", 7)
        jms == Get(result_, "job_match_score", JNull)
        job_match_score == IF jms # JNull /\ InvalidScore(jms) THEN JNull ELSE jms
        mk == Get(result_, "missing_keywords", JNull)
        missing_keywords ==
            IF mk # JNull /\ ~isinstance_list(mk) THEN JNull
            ELSE IF isinstance_list(mk) THEN JList(Prefix(mk.l, 10))
            ELSE mk
        got_ats == Get(result_, "ats_score", JInt(75))
        ats_score == IF InvalidScore(got_ats) THEN JInt(75) ELSE got_ats
        got_issues == Get(result_, "ats_issues", JList(<<>>))
        ats_issues == IF ~isinstance_list(got_issues) THEN JList(<<>>) ELSE got_issues
        got_recs == Get(result_, "ats_recommendations", JList(<<>>))
        ats_recommendations == IF ~isinstance_list(got_recs) THEN JList(<<>>) ELSE got_recs
        validated ==
            [overall_score |-> overall_score,
             section_scores |-> section_scores.value,
             strengths |-> strengths,
             weaknesses |-> weaknesses,
             recommendations |-> recommendations,
             ats_score |-> ats_score,
             ats_issues |-> ats_issues,
             ats_recommendations |-> ats_recommendations]
        with_score ==
            IF job_match_score # JNull
            THEN ("job_match_score" :> job_match_score) @@ validated
            ELSE validated
        with_keywords ==
            IF missing_keywords # JNull
            THEN ("missing_keywords" :> missing_keywords) @@ with_score
            ELSE with_score
    IN  IF section_scores.raised THEN section_scores ELSE Returned(with_keywords)

\* ---------------------------------------------- payloads to be validated

PayloadKeys ==
    << "overall_score", "section_scores", "strengths", "weaknesses", "recommendations",
       "job_match_score", "missing_keywords", "ats_score", "ats_issues",
       "ats_recommendations" >>

SectionKeys == {"skills", "experience", "clarity", "keywords", "bonus"}

SectionValues == {JBool(TRUE), JInt(80), JInt(101), JStr("high")}

ItemNames == <<"k1", "k2", "k3", "k4", "k5", "k6", "k7", "k8", "k9", "k10", "k11">>

ListLens == {0, 4, 6, 8, 11}

ListValues == {JNull, JStr("none")} \cup {JList(SubSeq(ItemNames, 1, n)) : n \in ListLens}

\* the dicts with at most n of the keys K, their values in V
RECURSIVE DictsOver(_, _, _)
DictsOver(K, V, n) ==
    IF K = {} \/ n <= 0 THEN {EmptyDict}
    ELSE LET k == CHOOSE x \in K : TRUE
             without == DictsOver(K \ {k}, V, n)
             fewer == {d \in without : Cardinality(DOMAIN d) < n}
         IN  without \cup {(k :> v) @@ d : v \in V, d \in fewer}

\* the values tried for one payload key, given room for n keys
FieldValues(key, n) ==
    CASE key = "overall_score" ->
             {JNull, JBool(TRUE), JInt(-1), JInt(0), JInt(73), JInt(100), JInt(101), JStr("high")}
      [] key = "section_scores" ->
             {JNull, JList(<<>>), JStr("skills"), JInt(5)}
             \cup {JDict(d) : d \in DictsOver(SectionKeys, SectionValues, n - 1)}
      [] key = "job_match_score" ->
             {JNull, JBool(TRUE), JInt(0), JInt(85), JInt(101), JFloat("85.5")}
      [] key = "ats_score" -> {JNull, JInt(42), JInt(200)}
      [] key \in {"ats_issues", "ats_recommendations"} -> {JNull, JList(<<"k1">>)}
      [] OTHER -> ListValues

\* the keys a value takes of the room
Size(v) == IF v.t = "dict" THEN 1 + Cardinality(DOMAIN v.d) ELSE 1

\* the keys a payload takes of the room
PayloadSize(d) ==
    Cardinality(DOMAIN d)
    + (IF "section_scores" \in DOMAIN d /\ d["section_scores"].t = "dict"
       THEN Cardinality(DOMAIN d["section_scores"].d) ELSE 0)

\* json.loads reads the next key of the object: payload d grows by a key that
\* follows the keys it has (each payload is built in one order only)
NextKeys(d, max) ==
    { <<k, v>> \in UNION { {<<PayloadKeys[i], v>> : v \in FieldValues(PayloadKeys[i], max - PayloadSize(d))} :
                             i \in { i \in 1..Len(PayloadKeys) :
                                        \A j \in i..Len(PayloadKeys) : PayloadKeys[j] \notin DOMAIN d } } :
          PayloadSize(d) + Size(v) <= max }

\* ------------------------------------------------ the validator on its own

InitValidate ==
    /\ pc = "validate_start"
    /\ result = EmptyDict
    /\ resume_text = <<>>
    /\ job_description = None
    /\ analyzer = NewAnalyzer
    /\ ats_results = None
    /\ content = None
    /\ outcome = None
    /\ hash_seed = 0
    /\ invoked = "no"
    /\ reports = <<>>
    /\ ChatIdle
    /\ AppIdle

\* the caller's dictionary gets one more key
PayloadKey ==
    /\ pc = "validate_start"
    /\ \E kv \in NextKeys(result, MaxKeys) : result' = (kv[1] :> kv[2]) @@ result
    /\ UNCHANGED <<pc, resume_text, job_description, analyzer, ats_results, content, outcome,
                   hash_seed>>
    /\ UNCHANGED <<invoked, reports, chatVars, appVars>>

\* self._validate_and_normalize_result(result)
Validate ==
    /\ pc = "validate_start"
    /\ pc' = "validate_done"
    /\ outcome' = _validate_and_normalize_result(result)
    /\ UNCHANGED <<resume_text, job_description, analyzer, ats_results, content, result,
                   hash_seed>>
    /\ UNCHANGED <<invoked, reports, chatVars, appVars>>

NextValidate == PayloadKey \/ Validate

SpecValidate == InitValidate /\ [][NextValidate]_vars

\* ------------------------------------------------ ResumeScorer.score_resume

\* response.content is a sequence of tokens: [lit |-> s] for the characters s
\* as they are, [json |-> v] for the JSON text of the value v
Lit(s) == [lit |-> s]

JsonText(v) == [json |-> v]

\* the three backquotes of a Markdown code fence
FENCE == Lit("<FENCE>")

\* the tag json after an opening fence
TAG == Lit("json")

LF == Lit("\n")

IsBlank(token) == token \in {LF, Lit(" ")}

\* content.strip()
RECURSIVE strip(_)
strip(tokens) ==
    IF tokens = <<>> THEN tokens
    ELSE IF IsBlank(tokens[1]) THEN strip(Tail(tokens))
    ELSE IF IsBlank(tokens[Len(tokens)]) THEN strip(SubSeq(tokens, 1, Len(tokens) - 1))
    ELSE tokens

\* content_clean.startswith(prefix), prefix a sequence of tokens
startswith(tokens, prefix) ==
    Len(tokens) >= Len(prefix) /\ SubSeq(tokens, 1, Len(prefix)) = prefix

\* content_clean.endswith(fence)
endswith(tokens, last) == tokens # <<>> /\ tokens[Len(tokens)] = last

\* lines 190-197: strip, drop a leading fence tagged json, a leading fence, a
\* trailing fence, strip
Clean(content_) ==
    LET c0 == strip(content_)
        c1 == IF startswith(c0, <<FENCE, TAG>>) THEN SubSeq(c0, 3, Len(c0)) ELSE c0
        c2 == IF startswith(c1, <<FENCE>>) THEN Tail(c1) ELSE c1
        c3 == IF endswith(c2, FENCE) THEN SubSeq(c2, 1, Len(c2) - 1) ELSE c2
    IN  strip(c3)

\* json.loads(content_clean): the value of a single JSON text (blanks around
\* it allowed), JSONDecodeError for anything else, the empty text included
json_loads(tokens) ==
    LET inner == strip(tokens)
    IN  IF Len(inner) = 1 /\ "json" \in DOMAIN inner[1]
        THEN Returned(inner[1].json)
        ELSE Raised("JSONDecodeError")

\* ats_results as the values result.update() stores
AtsEntries(ats) ==
    [ats_score |-> JInt(ats.ats_score),
     ats_issues |-> JList(ats.ats_issues),
     ats_recommendations |-> JList(ats.ats_recommendations)]

updateKeepingOld(d, entries) == d @@ entries

\* d.update(entries): the entries replace what d held under their keys
update(d, entries) == entries @@ d

_create_fallback_response_no_metrics(text) ==
    LET base_score == 60 + (IF WordCount(text) > 200 THEN 10 ELSE 0)
    IN  [overall_score |-> JInt(base_score),
         section_scores |-> JDict([k \in {"skills", "experience", "clarity", "keywords"}
                                      |-> JInt(base_score)]),
         ats_score |-> JInt(analyze_ats_compatibility(text).ats_score),
         ats_issues |-> JList(analyze_ats_compatibility(text).ats_issues),
         ats_recommendations |-> JList(analyze_ats_compatibility(text).ats_recommendations),
         strengths |-> JList(<<"Resume content extracted successfully">>),
         weaknesses |-> JList(<<"Detailed analysis unavailable - please try again">>),
         recommendations |-> JList(<<"Ensure resume includes clear section headers",
                                     "Add quantifiable achievements with metrics",
                                     "Use industry-standard terminology">>)]

\* analyze_ats_compatibility raises for no str, so the except branch
\* (ats_score 70) is never taken
_create_fallback_response(text) ==
    LET word_count == WordCount(text)
        has_metrics == \E i \in 1..Len(text) : ChunkHasDigit(text[i].s)
        base_score == 60 + (IF word_count > 200 THEN 10 ELSE 0)
                         + (IF has_metrics THEN 10 ELSE 0)
        ats == analyze_ats_compatibility(text)
    IN  [overall_score |-> JInt(base_score),
         section_scores |-> JDict([k \in {"skills", "experience", "clarity", "keywords"}
                                      |-> JInt(base_score)]),
         ats_score |-> JInt(ats.ats_score),
         ats_issues |-> JList(ats.ats_issues),
         ats_recommendations |-> JList(ats.ats_recommendations),
         strengths |-> JList(<<"Resume content extracted successfully">>),
         weaknesses |-> JList(<<"Detailed analysis unavailable - please try again">>),
         recommendations |-> JList(<<"Ensure resume includes clear section headers",
                                     "Add quantifiable achievements with metrics",
                                     "Use industry-standard terminology">>)]

\* what score_resume does or logs last
Logged(message, out) == [raised |-> out.raised, log |-> message] @@ out

\* lines 185-223: from response.content to the return or the re-raise
HandleContent(text, ats, content_) ==
    LET parsed == json_loads(Clean(content_))
    IN  IF parsed.raised
        THEN \* except json.JSONDecodeError
             Logged("Using fallback response due to parsing failure",
                    Returned(update(_create_fallback_response(text), AtsEntries(ats))))
        ELSE IF parsed.value.t # "dict"
        THEN \* result.update: no such attribute on a list, a number, a str, None
             Logged("Resume scoring failed", Raised("AttributeError"))
        ELSE LET validated ==
                     _validate_and_normalize_result(update(parsed.value.d, AtsEntries(ats)))
             IN  IF validated.raised
                 THEN Logged("Resume scoring failed", validated)
                 ELSE Logged("Resume analysis completed successfully", validated)

\* ----------------------------------------------- inputs of score_resume

ScoreTexts ==
    { <<>>,
      <<Filler(100), Filler(100)>>,
      <<Filler(100), Filler(100), Filler(1)>>,
      <<Filler(100), Filler(100), Word("2020")>>,
      <<Word("jo@ex.com 555-123-4567")>>,
      <<Word("<STAR>"), NL, Word("<BULLET>")>> }

JobDescriptions == {None, "Senior Python developer with Flask and API experience"}

\* the payloads of at most n keys
RECURSIVE PayloadsUpTo(_)
PayloadsUpTo(n) ==
    IF n = 0 THEN {EmptyDict}
    ELSE LET fewer == PayloadsUpTo(n - 1)
         IN  fewer \cup UNION { {(kv[1] :> kv[2]) @@ d : kv \in NextKeys(d, n)} : d \in fewer }

\* JSON values the external call may answer with: objects, and values that are none
AnswerValues ==
    {JDict(d) : d \in PayloadsUpTo(MaxAnswerKeys)}
    \cup {JList(<<>>), JInt(5), JStr("Great resume"), JNull}

PROSE == Lit("Here is my analysis of the resume")

\* the texts the external call may answer with
Contents ==
    {<<>>, <<PROSE>>}
    \cup UNION { { <<JsonText(v)>>,
                   <<FENCE, TAG, LF, JsonText(v), LF, FENCE>>,
                   <<FENCE, LF, JsonText(v), LF, FENCE, LF>>,
                   <<PROSE, LF, JsonText(v)>> } : v \in AnswerValues }

Init ==
    /\ pc = "score_start"
    /\ resume_text \in ScoreTexts
    /\ job_description \in JobDescriptions
    /\ hash_seed \in {0, 1}
    /\ analyzer = NewAnalyzer
    /\ ats_results = None
    /\ content = None
    /\ result = None
    /\ outcome = None
    /\ invoked = "no"
    /\ reports = <<>>
    /\ ChatIdle
    /\ AppIdle

\* score_resume up to the external call: the ATS analysis, the prompt
ScoreStart ==
    /\ pc = "score_start"
    /\ pc' = "invoke"
    /\ analyzer' = RunChecks(resume_text)
    /\ ats_results' = Report(analyzer')
    /\ UNCHANGED <<resume_text, job_description, content, result, outcome, hash_seed>>
    /\ UNCHANGED <<invoked, reports, chatVars, appVars>>

\* chain.invoke returns a response
InvokeReturns ==
    /\ pc = "invoke"
    /\ pc' = "parse"
    /\ content' \in Contents
    /\ UNCHANGED <<resume_text, job_description, analyzer, ats_results, result, outcome,
                   hash_seed>>
    /\ invoked' = "returned"
    /\ UNCHANGED <<reports, chatVars, appVars>>

InvokeRaisesFallsBack ==
    /\ pc = "invoke"
    /\ pc' = "score_done"
    /\ outcome' = Logged("Using fallback response due to parsing failure",
                         Returned(update(_create_fallback_response(resume_text),
                                         AtsEntries(ats_results))))
    /\ UNCHANGED <<resume_text, job_description, analyzer, ats_results, content, result,
                   hash_seed>>
    /\ invoked' = "raised"
    /\ UNCHANGED <<reports, chatVars, appVars>>

\* chain.invoke raises: the outer except logs and re-raises
InvokeRaises ==
    /\ pc = "invoke"
    /\ pc' = "score_done"
    /\ outcome' = Logged("Resume scoring failed", Raised("ExternalCallError"))
    /\ UNCHANGED <<resume_text, job_description, analyzer, ats_results, content, result,
                   hash_seed>>
    /\ invoked' = "raised"
    /\ UNCHANGED <<reports, chatVars, appVars>>

\* score_resume after the external call
ParseResponse ==
    /\ pc = "parse"
    /\ pc' = "score_done"
    /\ LET parsed == json_loads(Clean(content))
       IN  result' = IF ~parsed.raised /\ parsed.value.t = "dict"
                     THEN update(parsed.value.d, AtsEntries(ats_results))
                     ELSE result
    /\ outcome' = HandleContent(resume_text, ats_results, content)
    /\ UNCHANGED <<resume_text, job_description, analyzer, ats_results, content, hash_seed>>
    /\ UNCHANGED <<invoked, reports, chatVars, appVars>>

Next == ScoreStart \/ InvokeReturns \/ InvokeRaises \/ ParseResponse

Spec == Init /\ [][Next]_vars

\* --------------------------------------------------- claims: validator

ValidateReturned == pc = "validate_done" /\ ~outcome.raised

RequiredKeys ==
    { "overall_score", "section_scores", "strengths", "weaknesses", "recommendations",
      "ats_score", "ats_issues", "ats_recommendations" }

\* an integer (no boolean, no other type) in [0,100]
IsScore(x) == x.t = "int" /\ x.i \in 0..100

\* C1: the validator never raises and returns an assessment with every
\* required key, whatever the payload (a section_scores that is no mapping
\* included).
C1_ValidatorNeverRaises ==
    pc = "validate_done" =>
        /\ ~outcome.raised
        /\ RequiredKeys \subseteq DOMAIN outcome.value

\* C6: the returned section_scores has exactly the keys skills, experience,
\* clarity, keywords, each an integer in [0,100].
C6_ExactlyFourIntegerSections ==
    ValidateReturned =>
        LET sections == outcome.value["section_scores"].d
        IN  /\ DOMAIN sections = {"skills", "experience", "clarity", "keywords"}
            /\ \A k \in DOMAIN sections : IsScore(sections[k])

\* C7: overall_score is the payload's when that is an integer in [0,100] and
\* 50 otherwise (absent, not an integer, out of range); each of the four
\* section scores is the payload's when valid and that overall_score otherwise.
C7_DefaultsAre50AndOverall ==
    ValidateReturned =>
        LET overall ==
                IF "overall_score" \in DOMAIN result /\ IsScore(result["overall_score"])
                THEN result["overall_score"] ELSE JInt(50)
            given == IF "section_scores" \in DOMAIN result
                     THEN result["section_scores"].d ELSE EmptyDict
            sections == outcome.value["section_scores"].d
        IN  /\ outcome.value["overall_score"] = overall
            /\ \A k \in {"skills", "experience", "clarity", "keywords"} :
                   sections[k] = IF k \in DOMAIN given /\ IsScore(given[k])
                                 THEN given[k] ELSE overall

\* the first Min(limit, Len(given)) entries of given, in order
IsPrefixOf(out, given, limit) ==
    /\ Len(out) = (IF Len(given) < limit THEN Len(given) ELSE limit)
    /\ \A i \in 1..Len(out) : out[i] = given[i]

ListLimits == [strengths |-> 5, weaknesses |-> 5, recommendations |-> 7]

\* C8: strengths and weaknesses hold at most 5 entries, recommendations at
\* most 7, missing_keywords (when present) at most 10; each is the prefix of
\* the payload's list, and empty (missing_keywords: absent) when the payload
\* holds no list there.
C8_ListsArePrefixes ==
    ValidateReturned =>
        /\ \A f \in DOMAIN ListLimits :
               LET out == outcome.value[f].l
               IN  /\ Len(out) <= ListLimits[f]
                   /\ IF f \in DOMAIN result /\ result[f].t = "list"
                      THEN IsPrefixOf(out, result[f].l, ListLimits[f])
                      ELSE out = <<>>
        /\ IF "missing_keywords" \in DOMAIN result /\ result["missing_keywords"].t = "list"
           THEN /\ "missing_keywords" \in DOMAIN outcome.value
                /\ Len(outcome.value["missing_keywords"].l) <= 10
                /\ IsPrefixOf(outcome.value["missing_keywords"].l,
                              result["missing_keywords"].l, 10)
           ELSE "missing_keywords" \notin DOMAIN outcome.value

\* C8 witness: a payload with a list longer than its limit and a field that
\* is no list, validated.
C8_Witness ==
    /\ ValidateReturned
    /\ "strengths" \in DOMAIN result /\ result["strengths"].t = "list"
    /\ Len(result["strengths"].l) > 5
    /\ Len(outcome.value["strengths"].l) = 5
    /\ "missing_keywords" \in DOMAIN result /\ result["missing_keywords"].t = "list"
    /\ Len(result["missing_keywords"].l) > 10
    /\ "recommendations" \in DOMAIN result /\ result["recommendations"].t = "str"

\* C9 as claimed: job_match_score and missing_keywords are both present or
\* both absent.
C9_BothOrNeither ==
    ValidateReturned =>
        ("job_match_score" \in DOMAIN outcome.value
            <=> "missing_keywords" \in DOMAIN outcome.value)

\* C9 amended: each of the two is kept on its own: job_match_score is present
\* exactly when the payload's value is a Python int (a bool counts) in
\* [0,100], missing_keywords exactly when the payload's value is a list.
C9_EachOnItsOwn ==
    ValidateReturned =>
        /\ "job_match_score" \in DOMAIN outcome.value
               <=> /\ "job_match_score" \in DOMAIN result
                   /\ result["job_match_score"].t \in {"int", "bool"}
                   /\ IntValue(result["job_match_score"]) \in 0..100
        /\ "missing_keywords" \in DOMAIN outcome.value
               <=> /\ "missing_keywords" \in DOMAIN result
                   /\ result["missing_keywords"].t = "list"

\* C9 witness: missing_keywords returned without a job_match_score, the
\* payload's score being out of range.
C9_Witness ==
    /\ ValidateReturned
    /\ "job_match_score" \in DOMAIN result
    /\ result["job_match_score"] = JInt(101)
    /\ "missing_keywords" \in DOMAIN outcome.value
    /\ "job_match_score" \notin DOMAIN outcome.value

\* ------------------------------------------------ claims: score_resume

\* chain.invoke returned and score_resume has finished
CallSucceeded ==
    pc = "score_done" /\ ~(outcome.raised /\ outcome.exc = "ExternalCallError")

ScoreReturned == pc = "score_done" /\ ~outcome.raised

\* the text of the response was no JSON text: the fallback path
ParseFailed == CallSucceeded /\ json_loads(Clean(content)).raised

\* C2: whenever the external call itself succeeds, score_resume returns and
\* never raises, whatever the text of the response (JSON that is no object,
\* or an object whose section_scores is no mapping, included).
C2_NoRaiseOnceCallSucceeded ==
    CallSucceeded => ~outcome.raised

\* C3: job_match_score is in the returned assessment only if a job
\* description was supplied and the payload held an integer in [0,100] for
\* it; with job_description None there is none.
C3_JobMatchOnlyWithJobDescription ==
    (ScoreReturned /\ "job_match_score" \in DOMAIN outcome.value) =>
        /\ job_description # None
        /\ "job_match_score" \in DOMAIN result
        /\ IsScore(result["job_match_score"])

\* C5: on every path of score_resume that returns, ats_score, ats_issues and
\* ats_recommendations are the analyzer's for the resume text, whatever the
\* payload held under these keys.
C5_AtsFieldsAreTheAnalyzers ==
    ScoreReturned =>
        LET ats == analyze_ats_compatibility(resume_text)
        IN  /\ outcome.value["ats_score"] = JInt(ats.ats_score)
            /\ outcome.value["ats_issues"] = JList(ats.ats_issues)
            /\ outcome.value["ats_recommendations"] = JList(ats.ats_recommendations)

\* C5 witness: the payload held an ats_score of its own, which is also a
\* valid score, and the returned assessment holds another one.
C5_Witness ==
    /\ ScoreReturned
    /\ \E i \in 1..Len(content) :
           /\ "json" \in DOMAIN content[i]
           /\ content[i].json.t = "dict"
           /\ "ats_score" \in DOMAIN content[i].json.d
           /\ content[i].json.d["ats_score"] = JInt(42)
    /\ outcome.log = "Resume analysis completed successfully"
    /\ outcome.value["ats_score"] # JInt(42)

\* C10: the fallback path never raises; its overall_score is 60, plus 10 for
\* more than 200 words, plus 10 for a digit in the text, a member of
\* {60,70,75,80}; the four section scores equal it.
C10_FallbackScore ==
    ParseFailed =>
        /\ ~outcome.raised
        /\ LET many_words == WordCount(resume_text) > 200
               a_digit == \E i \in 1..Len(resume_text) : ChunkHasDigit(resume_text[i].s)
               expected == 60 + (IF many_words THEN 10 ELSE 0) + (IF a_digit THEN 10 ELSE 0)
               sections == outcome.value["section_scores"].d
           IN  /\ outcome.value["overall_score"] = JInt(expected)
               /\ expected \in {60, 70, 75, 80}
               /\ DOMAIN sections = {"skills", "experience", "clarity", "keywords"}
               /\ \A k \in DOMAIN sections : sections[k] = JInt(expected)

\* C10 witness: the response was prose, the text has more than 200 words and
\* a digit, and the fallback returned 80.
C10_Witness ==
    /\ ParseFailed
    /\ content = <<PROSE>>
    /\ WordCount(resume_text) > 200
    /\ outcome.log = "Using fallback response due to parsing failure"
    /\ outcome.value["overall_score"] = JInt(80)

\* C11: when the external call of score_resume raises, score_resume raises to
\* its caller: it returns no assessment and does not take the fallback.
C11_CallFailureRaises ==
    (pc = "score_done" /\ invoked = "raised") =>
        /\ outcome.raised
        /\ "value" \notin DOMAIN outcome
        /\ outcome.log # "Using fallback response due to parsing failure"

\* C11 witness: the external call raised and score_resume has raised.
C11_Witness ==
    /\ pc = "score_done"
    /\ invoked = "raised"
    /\ ats_results.ats_score \in 0..100
    /\ outcome.raised
    /\ outcome.log = "Resume scoring failed"

\* ------------------------------------------- services/chat_service.py: texts

\* A text of the chat service is a sequence of pieces whose concatenation it
\* is: a reply of the external capability is written character by character,
\* a fixed text of the code as one piece.

\* the text chat returns and chat_stream yields from their except branch
APOLOGY ==
    <<"I apologize, but I encountered an error processing your question. Please try rephrasing or ask something else about your resume analysis.">>

\* what \s matches
IsWhitespace(c) == c \in {" ", "\n", "\t"}

\* the length of the match of \S+\s* at the start of text, text[1] no whitespace
MatchLen(text) ==
    LET word == CHOOSE n \in 1..Len(text) :
                    /\ \A j \in 1..n : ~IsWhitespace(text[j])
                    /\ n = Len(text) \/ IsWhitespace(text[n + 1])
    IN  CHOOSE m \in word..Len(text) :
            /\ \A j \in (word + 1)..m : IsWhitespace(text[j])
            /\ m = Len(text) \/ ~IsWhitespace(text[m + 1])

\* re.findall(r'\S+\s*', response): the successive matches, left to right;
\* whitespace before the first match belongs to no match
RECURSIVE findall(_)
findall(text) ==
    IF text = <<>> THEN <<>>
    ELSE IF IsWhitespace(text[1]) THEN findall(Tail(text))
    ELSE <<SubSeq(text, 1, MatchLen(text))>>
             \o findall(SubSeq(text, MatchLen(text) + 1, Len(text)))

\* ''.join(chunks)
RECURSIVE Concat(_)
Concat(chunks) == IF chunks = <<>> THEN <<>> ELSE Head(chunks) \o Concat(Tail(chunks))

\* -------------------------- ResumeChatService._build_resume_context(analysis)

\* bool(v)
Truthy(v) ==
    CASE v.t = "null" -> FALSE
      [] v.t = "bool" -> v.b
      [] v.t = "int" -> v.i # 0
      [] v.t = "str" -> v.s # ""
      [] v.t = "list" -> v.l # <<>>
      [] v.t = "dict" -> DOMAIN v.d # {}

Line(label, value) == [label |-> label, value |-> value]

\* lines 106-109 (112-115, 118-121): the heading with len(...) and the first
\* three entries; len() of a number raises TypeError, a dict takes no slice
ListPart(analysis, key, heading) ==
    LET v == Get(analysis, key, JNull)
    IN  IF ~Truthy(v) THEN Returned(<<>>)
        ELSE CASE v.t = "list" ->
                      Returned(<<Line(heading, JInt(Len(v.l)))>>
                               \o [i \in 1..Len(Prefix(v.l, 3)) |-> Line("  - ", JStr(v.l[i]))])
               [] v.t \in {"bool", "int", "dict"} -> Raised("TypeError")

\* the keys of a dict in some order
RECURSIVE KeysOf(_)
KeysOf(K) == IF K = {} THEN <<>> ELSE LET k == CHOOSE x \in K : TRUE IN <<k>> \o KeysOf(K \ {k})

\* the context as its lines; AttributeError for an analysis without .get, for
\* a section_scores without .items
_build_resume_context(analysis_) ==
    IF analysis_.t # "dict" THEN Raised("AttributeError")
    ELSE LET analysis == analysis_.d
             head == <<Line("Overall Score: ", Get(analysis, "overall_score", JStr("N/A"))),
                       Line("ATS Score: ", Get(analysis, "ats_score", JStr("N/A")))>>
             match == IF Truthy(Get(analysis, "job_match_score", JNull))
                      THEN <<Line("Job Match Score: ", analysis["job_match_score"])>>
                      ELSE <<>>
             sections == IF "section_scores" \notin DOMAIN analysis THEN Returned(<<>>)
                         ELSE IF analysis["section_scores"].t # "dict"
                         THEN Raised("AttributeError")
                         ELSE LET d == analysis["section_scores"].d
                                  keys == KeysOf(DOMAIN d)
                              IN  Returned(<<Line("Section Scores:", JNull)>>
                                      \o [i \in 1..Len(keys) |-> Line(keys[i], d[keys[i]])])
             strengths == ListPart(analysis, "strengths", "Strengths")
             weaknesses == ListPart(analysis, "weaknesses", "Weaknesses")
             recommendations == ListPart(analysis, "recommendations", "Recommendations")
         IN  IF sections.raised THEN sections
             ELSE IF strengths.raised THEN strengths
             ELSE IF weaknesses.raised THEN weaknesses
             ELSE IF recommendations.raised THEN recommendations
             ELSE Returned(head \o match \o sections.value \o strengths.value
                               \o weaknesses.value \o recommendations.value)

\* ------------------------------------------------ ResumeChatService: state

\* no call of the scorer
ScorerIdle ==
    /\ pc = "idle"
    /\ resume_text = <<>>
    /\ job_description = None
    /\ analyzer = NewAnalyzer
    /\ ats_results = None
    /\ content = None
    /\ result = None
    /\ outcome = None
    /\ hash_seed = 0
    /\ invoked = "no"
    /\ reports = <<>>

\* a turn before get_or_create_session has returned
NoSession == [analysis |-> JNull, memory |-> 0]

\* a call of the service: kind is the method called.  session is the dict
\* get_or_create_session returned (the memory as the index of the object),
\* history what the memory gave the prompt, response what chain.run returned,
\* resume_context the lines _build_resume_context rendered for the prompt,
\* returned what chat returned, chunks what chat_stream has yielded, error the
\* exception raised inside the call ("" for none), raised whether it left it
NewTurn(kind, session_id, message, analysis_data) ==
    [kind |-> kind, session_id |-> session_id, message |-> message,
     analysis_data |-> analysis_data, pc |-> "start", session |-> NoSession,
     resume_context |-> <<>>, history |-> <<>>, response |-> <<>>, returned |-> <<>>,
     chunks |-> <<>>, error |-> "", raised |-> FALSE]

\* a message of the memory
Human(text) == [role |-> "Human", content |-> text]

AI(text) == [role |-> "AI", content |-> text]

ExceptRaises(turn, exc) == [turn EXCEPT !.pc = "done", !.error = exc, !.raised = TRUE]

\* exc is raised in the call: the except branch of chat (lines 147-149) and of
\* chat_stream (184-186) answers; get_or_create_session called on its own has
\* none
Except(turn, exc) ==
    CASE turn.kind = "chat" ->
             [turn EXCEPT !.pc = "done", !.error = exc, !.returned = APOLOGY]
      [] turn.kind = "chat_stream" ->
             [turn EXCEPT !.pc = "done", !.error = exc, !.chunks = <<APOLOGY>>]
      [] turn.kind = "get_or_create_session" ->
             [turn EXCEPT !.pc = "done", !.error = exc, !.raised = TRUE]

\* ---------------------------------------------- ResumeChatService: inputs

SessionIds == {"s1", "s2"}

\* the message of the i-th call
Message(i) == <<"q", ToString(i)>>

\* the assessment the i-th call brings
Assessment(i) ==
    JDict([overall_score |-> JInt(70 + i),
           section_scores |-> JDict([skills |-> JInt(80)]),
           strengths |-> JList(<<"k1", "k2", "k3", "k4">>)])

\* what a caller may pass as analysis_data
Analyses(i) == {Assessment(i), JNull, JDict([strengths |-> JInt(5)])}

\* replies of the external capability in a conversation
ChatReplies == {<<"o", "k">>, <<" ", "o", "k", " ", "!">>}

\* --------------------------------------------- ResumeChatService: the steps

SessionCheckAlwaysCreates(i) ==
    /\ turns[i].pc = "start"
    /\ turns[i].kind # "clear_session"
    /\ turns' = [turns EXCEPT ![i].pc = "create"]
    /\ UNCHANGED <<sessions, memories, scorerVars, appVars>>

\* line 62: session_id not in self.sessions
SessionCheck(i) ==
    /\ turns[i].pc = "start"
    /\ turns[i].kind # "clear_session"
    /\ turns' = [turns EXCEPT ![i].pc =
                    IF turns[i].session_id \in DOMAIN sessions THEN "fetch" ELSE "create"]
    /\ UNCHANGED <<sessions, memories, scorerVars, appVars>>

SessionCreateSharingMemory(i) ==
    /\ turns[i].pc = "create"
    /\ memories' = IF memories = <<>> THEN <<<<>>>> ELSE memories
    /\ sessions' = (turns[i].session_id :>
                        [analysis |-> turns[i].analysis_data, memory |-> 1])
                   @@ sessions
    /\ turns' = [turns EXCEPT ![i].pc = "fetch"]
    /\ UNCHANGED <<scorerVars, appVars>>

\* lines 64-83: a new memory and chain, stored under the id
SessionCreate(i) ==
    /\ turns[i].pc = "create"
    /\ memories' = Append(memories, <<>>)
    /\ sessions' = (turns[i].session_id :>
                        [analysis |-> turns[i].analysis_data, memory |-> Len(memories) + 1])
                   @@ sessions
    /\ turns' = [turns EXCEPT ![i].pc = "fetch"]
    /\ UNCHANGED <<scorerVars, appVars>>

\* line 87: return self.sessions[session_id] (KeyError when the id has been
\* cleared since), then lines 130-134 of chat, 159-163 of chat_stream
SessionFetch(i) ==
    /\ turns[i].pc = "fetch"
    /\ LET turn == turns[i]
       IN  turns' = [turns EXCEPT ![i] =
               IF turn.session_id \notin DOMAIN sessions THEN Except(turn, "KeyError")
               ELSE LET session == sessions[turn.session_id]
                        got == [turn EXCEPT !.session = session]
                    IN  IF turn.kind = "get_or_create_session"
                        THEN [got EXCEPT !.pc = "done"]
                        ELSE IF _build_resume_context(session.analysis).raised
                        THEN Except(got, _build_resume_context(session.analysis).exc)
                        ELSE [got EXCEPT !.pc = "load",
                                         !.resume_context =
                                             _build_resume_context(session.analysis).value]]
    /\ UNCHANGED <<sessions, memories, scorerVars, appVars>>

\* chain.run, first part: the memory's messages become the prompt's history
LoadMemory(i) ==
    /\ turns[i].pc = "load"
    /\ turns' = [turns EXCEPT ![i].history = memories[turns[i].session.memory],
                              ![i].pc = "call"]
    /\ UNCHANGED <<sessions, memories, scorerVars, appVars>>

\* chain.run: the external capability answers
CallReturns(i, replies) ==
    /\ turns[i].pc = "call"
    /\ \E reply \in replies :
           turns' = [turns EXCEPT ![i].response = reply, ![i].pc = "save_human"]
    /\ UNCHANGED <<sessions, memories, scorerVars, appVars>>

CallRaisesDroppingSession(i) ==
    /\ turns[i].pc = "call"
    /\ turns' = [turns EXCEPT ![i] = Except(turns[i], "ExternalCallError")]
    /\ sessions' = [id \in DOMAIN sessions \ {turns[i].session_id} |-> sessions[id]]
    /\ UNCHANGED <<memories, scorerVars, appVars>>

CallRaisesAndSaves(i) ==
    /\ turns[i].pc = "call"
    /\ turns' = [turns EXCEPT ![i] = Except(turns[i], "ExternalCallError")]
    /\ memories' = [memories EXCEPT ![turns[i].session.memory] =
                       Append(@, Human(turns[i].message))]
    /\ UNCHANGED <<sessions, scorerVars, appVars>>

\* chain.run: the external capability raises; nothing is saved
CallRaises(i) ==
    /\ turns[i].pc = "call"
    /\ turns' = [turns EXCEPT ![i] = Except(turns[i], "ExternalCallError")]
    /\ UNCHANGED <<sessions, memories, scorerVars, appVars>>

SaveHumanFirst(i) ==
    /\ turns[i].pc = "save_human"
    /\ memories' = [memories EXCEPT ![turns[i].session.memory] =
                       <<Human(turns[i].message)>> \o @]
    /\ turns' = [turns EXCEPT ![i].pc = "save_ai"]
    /\ UNCHANGED <<sessions, scorerVars, appVars>>

\* chain.run, save_context: the user's message is appended
SaveHuman(i) ==
    /\ turns[i].pc = "save_human"
    /\ memories' = [memories EXCEPT ![turns[i].session.memory] =
                       Append(@, Human(turns[i].message))]
    /\ turns' = [turns EXCEPT ![i].pc = "save_ai"]
    /\ UNCHANGED <<sessions, scorerVars, appVars>>

\* chain.run, save_context: the reply is appended; then chat returns the
\* response (line 145), chat_stream yields its matches (lines 176-180)
SaveAI(i) ==
    /\ turns[i].pc = "save_ai"
    /\ memories' = [memories EXCEPT ![turns[i].session.memory] =
                       Append(@, AI(turns[i].response))]
    /\ turns' = [turns EXCEPT ![i] =
                    IF turns[i].kind = "chat"
                    THEN [@ EXCEPT !.pc = "done", !.returned = turns[i].response]
                    ELSE [@ EXCEPT !.pc = "done", !.chunks = findall(turns[i].response)]]
    /\ UNCHANGED <<sessions, scorerVars, appVars>>

ClearSessionAll(i) ==
    /\ turns[i].pc = "start"
    /\ turns[i].kind = "clear_session"
    /\ sessions' = IF turns[i].session_id \in DOMAIN sessions THEN <<>> ELSE sessions
    /\ turns' = [turns EXCEPT ![i].pc = "done"]
    /\ UNCHANGED <<memories, scorerVars, appVars>>

\* clear_session (lines 188-192)
ClearSession(i) ==
    /\ turns[i].pc = "start"
    /\ turns[i].kind = "clear_session"
    /\ sessions' = [id \in DOMAIN sessions \ {turns[i].session_id} |-> sessions[id]]
    /\ turns' = [turns EXCEPT ![i].pc = "done"]
    /\ UNCHANGED <<memories, scorerVars, appVars>>

\* any step of the call i
Step(i, replies) ==
    \/ SessionCheck(i)
    \/ SessionCreate(i)
    \/ SessionFetch(i)
    \/ LoadMemory(i)
    \/ CallReturns(i, replies)
    \/ CallRaises(i)
    \/ SaveHuman(i)
    \/ SaveAI(i)
    \/ ClearSession(i)

\* ------------------------------------- ResumeChatService, one call at a time

InitChat ==
    /\ ScorerIdle
    /\ AppIdle
    /\ sessions = <<>>
    /\ memories = <<>>
    /\ turns = <<>>

\* the two kinds of turn
Calls == {"chat", "chat_stream"}

\* the next call, made when the one before has returned
StartCall ==
    /\ Len(turns) < MaxTurns
    /\ \A j \in 1..Len(turns) : turns[j].pc = "done"
    /\ LET i == Len(turns) + 1
       IN  \E session_id \in SessionIds :
               \/ \E kind \in Calls, analysis_data \in Analyses(i) :
                      turns' = Append(turns, NewTurn(kind, session_id, Message(i),
                                                     analysis_data))
               \/ turns' = Append(turns, NewTurn("get_or_create_session", session_id, <<>>,
                                                 Assessment(i)))
               \/ turns' = Append(turns, NewTurn("clear_session", session_id, <<>>, JNull))
    /\ UNCHANGED <<sessions, memories, scorerVars, appVars>>

NextChat == StartCall \/ \E i \in 1..Len(turns) : Step(i, ChatReplies)

SpecChat == InitChat /\ [][NextChat]_vars

\* --------------------------------------------------- claims: chat service

\* a chat turn (either kind) that has ended
TurnDone(i) == turns[i].kind \in {"chat", "chat_stream"} /\ turns[i].pc = "done"

\* C12: an error raised during a chat turn (session lookup, context
\* rendering, external call) becomes the fixed apology: chat returns exactly
\* it, chat_stream yields it as its only chunk, and neither raises.
C12_ErrorsBecomeTheApology ==
    \A i \in 1..Len(turns) :
        TurnDone(i) =>
            /\ ~turns[i].raised
            /\ turns[i].error # "" =>
                   IF turns[i].kind = "chat"
                   THEN turns[i].returned = APOLOGY
                   ELSE turns[i].chunks = <<APOLOGY>>

\* C12 witness: a chat turn whose context could not be rendered and a
\* chat_stream turn whose external call raised have both answered.
C12_Witness ==
    \E i, j \in 1..Len(turns) :
        /\ TurnDone(i) /\ turns[i].kind = "chat"
        /\ turns[i].error \in {"AttributeError", "TypeError"}
        /\ turns[i].returned = APOLOGY
        /\ TurnDone(j) /\ turns[j].kind = "chat_stream"
        /\ turns[j].error = "ExternalCallError"
        /\ turns[j].chunks = <<APOLOGY>>

\* C13: a turn whose external call raises leaves the history as it was:
\* neither the message nor the apology is appended, and the next turn of the
\* session is sent the history the failed turn was sent.
C13_FailedTurnLeavesHistory ==
    \A i \in 1..Len(turns) :
        (TurnDone(i) /\ turns[i].error = "ExternalCallError") =>
            /\ i = Len(turns) => memories[turns[i].session.memory] = turns[i].history
            /\ (/\ i < Len(turns)
                /\ turns[i + 1].kind \in {"chat", "chat_stream"}
                /\ turns[i + 1].session_id = turns[i].session_id
                /\ turns[i + 1].pc \in {"call", "save_human", "save_ai"})
               => turns[i + 1].history = turns[i].history

\* C13 witness: after a successful turn, a turn of the same session has failed
\* at the external call and the next one has been sent the history.
C13_Witness ==
    /\ Len(turns) = 3
    /\ TurnDone(1) /\ turns[1].error = ""
    /\ TurnDone(2) /\ turns[2].error = "ExternalCallError"
    /\ turns[3].pc = "call"
    /\ turns[3].history = <<Human(turns[1].message), AI(turns[1].response)>>

\* the last clear_session of the id that has returned (0: none)
LastClear(session_id) ==
    LET clears == {j \in 1..Len(turns) : /\ turns[j].kind = "clear_session"
                                         /\ turns[j].session_id = session_id
                                         /\ turns[j].pc = "done"}
    IN  IF clears = {} THEN 0 ELSE CHOOSE j \in clears : \A k \in clears : k <= j

\* the calls with the id since then
CallsSince(session_id) ==
    {j \in (LastClear(session_id) + 1)..Len(turns) :
        turns[j].kind # "clear_session" /\ turns[j].session_id = session_id}

FirstCall(session_id) ==
    CHOOSE j \in CallsSince(session_id) : \A k \in CallsSince(session_id) : j <= k

\* C14: without a clear_session in between, the session's snapshot is the
\* assessment of the first call with the id; later calls get the session that
\* exists, their assessment ignored.
C14_SnapshotIsTheFirst ==
    \A session_id \in DOMAIN sessions :
        /\ sessions[session_id].analysis = turns[FirstCall(session_id)].analysis_data
        /\ \A j \in CallsSince(session_id) :
               turns[j].pc \notin {"start", "create", "fetch"} =>
                   turns[j].session = sessions[session_id]

\* C14 witness: a second call with another assessment has got the session of
\* the first.
C14_Witness ==
    /\ Len(turns) >= 2
    /\ turns[1].session_id = turns[2].session_id
    /\ turns[1].kind = "chat"
    /\ turns[2].kind = "get_or_create_session" /\ turns[2].pc = "done"
    /\ turns[2].analysis_data # turns[1].analysis_data
    /\ turns[2].session.analysis = turns[1].analysis_data

\* a turn that got its reply
Succeeded(j) == TurnDone(j) /\ turns[j].error = ""

\* the (user message, reply) pairs of the successful turns j, j+1, ... of the
\* session, in call order
RECURSIVE PairsFrom(_, _)
PairsFrom(session_id, j) ==
    IF j > Len(turns) THEN <<>>
    ELSE (IF Succeeded(j) /\ turns[j].session_id = session_id
          THEN <<Human(turns[j].message), AI(turns[j].response)>>
          ELSE <<>>) \o PairsFrom(session_id, j + 1)

\* every memory keeps what it held
AppendOnly ==
    \A m \in 1..Len(memories) :
        /\ Len(memories'[m]) >= Len(memories[m])
        /\ SubSeq(memories'[m], 1, Len(memories[m])) = memories[m]

\* C15: after n successful turns made one after the other, the history of a
\* session is the n (user message, reply) pairs in call order, the reply as
\* chat returned it; the history is append-only while the session exists.
C15_HistoryIsThePairs ==
    /\ [](( \A j \in 1..Len(turns) : turns[j].pc = "done" ) =>
            /\ \A session_id \in DOMAIN sessions :
                   memories[sessions[session_id].memory]
                       = PairsFrom(session_id, LastClear(session_id) + 1)
            /\ \A j \in 1..Len(turns) :
                   (Succeeded(j) /\ turns[j].kind = "chat") =>
                       turns[j].returned = turns[j].response)
    /\ [][AppendOnly]_vars

\* C15 witness: two successful turns of one session, then a failed one, and
\* the history holds the two pairs.
C15_Witness ==
    /\ Len(turns) = 3
    /\ \A j \in 1..3 : TurnDone(j) /\ turns[j].session_id = "s1"
    /\ Succeeded(1) /\ Succeeded(2) /\ ~Succeeded(3)
    /\ turns[1].response # turns[2].response
    /\ Len(memories[sessions["s1"].memory]) = 4

\* C16: for every reply, the chunks chat_stream yields concatenate to the
\* text chat returns for the same reply (the response itself).
C16_ChunksConcatenateToTheReply ==
    \A i \in 1..Len(turns) :
        (Succeeded(i) /\ turns[i].kind = "chat_stream") =>
            Concat(turns[i].chunks) = turns[i].response

\* ------------------------------- ResumeChatService under concurrent requests

\* run_production.py serves with 8 threads and the service is one object of
\* the module app: calls run at the same time, a thread switch possible
\* between any two of the steps above.

\* the reply to the i-th request
Reply(i) == <<"a", ToString(i)>>

\* a request arrives, whatever the others are doing
StartRequest ==
    /\ Len(turns) < MaxRequests
    /\ LET i == Len(turns) + 1
       IN  \E session_id \in SessionIds :
               \/ \E kind \in Calls :
                      turns' = Append(turns, NewTurn(kind, session_id, Message(i),
                                                     Assessment(i)))
               \/ turns' = Append(turns, NewTurn("clear_session", session_id, <<>>, JNull))
    /\ UNCHANGED <<sessions, memories, scorerVars, appVars>>

NextThreads == StartRequest \/ \E i \in 1..Len(turns) : Step(i, {Reply(i)})

SpecThreads == InitChat /\ [][NextThreads]_vars

\* ------------------------------------- claims: chat service, concurrent

\* a turn between reading the history and appending to it
InTurn(i) ==
    /\ turns[i].kind \in {"chat", "chat_stream"}
    /\ turns[i].pc \in {"call", "save_human", "save_ai"}

\* C17: turns of one session id exclude each other from reading the history
\* to appending to it, and the appended (user, assistant) pairs are never
\* interleaved.
C17_TurnsOfASessionExclude ==
    /\ \A i, j \in 1..Len(turns) :
           (i # j /\ turns[i].session_id = turns[j].session_id) =>
               ~(InTurn(i) /\ InTurn(j))
    /\ \A m \in 1..Len(memories) : \A k \in 1..(Len(memories[m]) - 1) :
           memories[m][k].role = "Human" => memories[m][k + 1].role = "AI"

\* no call with the id takes the step (nor arrives)
Quiet(session_id) ==
    \A j \in 1..Len(turns') :
        turns'[j].session_id = session_id => (j <= Len(turns) /\ turns'[j] = turns[j])

\* a step changes the entry and the memory of the stepping call's id only
OwnSessionOnly ==
    /\ \A session_id \in SessionIds :
           Quiet(session_id) =>
               /\ session_id \in DOMAIN sessions <=> session_id \in DOMAIN sessions'
               /\ session_id \in DOMAIN sessions =>
                      /\ sessions'[session_id] = sessions[session_id]
                      /\ memories'[sessions[session_id].memory]
                             = memories[sessions[session_id].memory]
    /\ \A m \in 1..Len(memories) :
           memories'[m] # memories[m] =>
               \E j \in 1..Len(turns) : turns[j].session.memory = m /\ turns'[j] # turns[j]

\* the calls with the id that are no clear_session
CallsWith(session_id) ==
    {j \in 1..Len(turns) :
        turns[j].session_id = session_id /\ turns[j].kind # "clear_session"}

Document(plumber, pypdf2) == [pdf |-> TRUE, pdfplumber |-> plumber, PyPDF2 |-> pypdf2]

Opened(pages) == [opens |-> TRUE, pages |-> pages]

Unreadable == [opens |-> FALSE, pages |-> <<>>]

NoPdf == Document(Unreadable, Unreadable)

\* The file of a request is a sequence of parts: "data:" (the head of a data
\* URL, up to its comma), ",", "!" (a character outside the base64 alphabet),
\* "A" (one base64 character too many: 4n+1 of them), and [b64 |-> bytes],
\* the base64 text of bytes.
Base64(bytes) == [b64 |-> bytes]

FilePart(s) == [part |-> s]

\* base64_string.split(',')[1] when there is a comma, else the string
AfterComma(file) ==
    IF \A i \in 1..Len(file) : file[i] # FilePart(",") THEN file
    ELSE LET first == CHOOSE i \in 1..Len(file) :
                          file[i] = FilePart(",") /\ \A j \in 1..(i - 1) : file[j] # FilePart(",")
             rest == SubSeq(file, first + 1, Len(file))
         IN  IF \A i \in 1..Len(rest) : rest[i] # FilePart(",") THEN rest
             ELSE SubSeq(rest, 1, (CHOOSE i \in 1..Len(rest) :
                                       rest[i] = FilePart(",")
                                       /\ \A j \in 1..(i - 1) : rest[j] # FilePart(",")) - 1)

\* base64.b64decode(s): characters outside the alphabet are discarded, 4n+1
\* characters raise binascii.Error, no character at all gives no byte
b64decode(s) ==
    LET data == SelectSeq(s, LAMBDA part : part # FilePart("!"))
    IN  IF \E i \in 1..Len(data) : data[i] = FilePart("A") THEN Raised("binascii.Error")
        ELSE IF data = <<>> THEN Returned(NoPdf)
        ELSE Returned(data[1].b64)

\* decode_base64_pdf(base64_string): every exception becomes ValueError; a
\* file that is no str (file.str false) has no `in`
decode_base64_pdf(file) ==
    IF ~file.str THEN Raised("ValueError")
    ELSE IF b64decode(AfterComma(file.parts)).raised THEN Raised("ValueError")
    ELSE b64decode(AfterComma(file.parts))

\* "\n\n".join(text_content)
RECURSIVE JoinPages(_)
JoinPages(text_content) ==
    IF Len(text_content) = 1 THEN text_content[1]
    ELSE text_content[1] \o <<NL, NL>> \o JoinPages(Tail(text_content))

\* _extract_with_pdfplumber / _extract_with_pypdf2: open, collect the pages
\* that have text, ValueError when none has
ExtractWith(reader) ==
    IF ~reader.opens THEN Raised("PdfReadError")
    ELSE LET text_content == SelectSeq(reader.pages, LAMBDA text : text # <<>>)
         IN  IF text_content = <<>> THEN Raised("ValueError")
             ELSE Returned(JoinPages(text_content))

\* extract_text_from_pdf(pdf_file): pdfplumber, and PyPDF2 when that raises
extract_text_from_pdf(pdf_file) ==
    IF ~ExtractWith(pdf_file.pdfplumber).raised THEN ExtractWith(pdf_file.pdfplumber)
    ELSE ExtractWith(pdf_file.PyPDF2)

validate_pdf_content_unstripped(text) ==
    IF text = <<>> \/ StrLen(text) < 50 THEN Raised("ValueError") ELSE Returned(TRUE)

\* validate_pdf_content(text), min_length 50
validate_pdf_content(text) ==
    IF text = <<>> \/ StrLen(Strip(text)) < 50 THEN Raised("ValueError") ELSE Returned(TRUE)

\* --------------------------------------------- app.py: inputs of a request

\* what a page may hold: nothing, blanks, 23, 47 (between blanks), 53 and 59
\* characters, 100 words
PageTexts ==
    { <<>>, <<GAP>>, <<Filler(4)>>, <<GAP, Filler(8), GAP>>, <<Filler(9)>>, <<Filler(10)>>,
      <<Filler(100), Word("2020")>> }

PageLists == SeqsUpTo(PageTexts, MaxPages)

\* uploads: PDFs both extractors read, PDFs only PyPDF2 reads, no PDF
Documents ==
    {Document(Opened(pages), Opened(pages)) : pages \in PageLists}
    \cup {Document(Unreadable, Opened(pages)) : pages \in PageLists}
    \cup {NoPdf}

StrFile(parts) == [str |-> TRUE, parts |-> parts]

\* the values of "file": the base64 text of an upload, the same in a data URL,
\* with characters outside the alphabet, with a character too many, empty,
\* and a value that is no string
Files ==
    {StrFile(<<Base64(d)>>) : d \in Documents}
    \cup UNION { { StrFile(<<FilePart("data:"), FilePart(","), Base64(d)>>),
                   StrFile(<<FilePart("!"), Base64(d), FilePart("!")>>),
                   StrFile(<<Base64(d), FilePart("A")>>) }
                 : d \in {NoPdf, Document(Opened(<<<<Filler(10)>>>>), Opened(<<<<Filler(10)>>>>))} }
    \cup {StrFile(<<>>), StrFile(<<FilePart("!")>>), StrFile(<<FilePart("A")>>),
          StrFile(<<FilePart("data:"), FilePart(",")>>), [str |-> FALSE, parts |-> <<>>]}

\* the request bodies: no JSON, JSON without "file", JSON with "file"
\* (is_object: get_json() gives a dict; null or a number has no `in`)
Bodies ==
    {[is_json |-> FALSE, is_object |-> FALSE, has_file |-> FALSE, file |-> StrFile(<<>>),
      job_description |-> None],
     [is_json |-> TRUE, is_object |-> FALSE, has_file |-> FALSE, file |-> StrFile(<<>>),
      job_description |-> None],
     [is_json |-> TRUE, is_object |-> TRUE, has_file |-> FALSE, file |-> StrFile(<<>>),
      job_description |-> None]}
    \cup {[is_json |-> TRUE, is_object |-> TRUE, has_file |-> TRUE, file |-> f,
           job_description |-> jd]
             : f \in Files, jd \in JobDescriptions}

\* Config.API_KEY
API_KEY == "secret"

\* request.headers.get('X-API-Key'): no header, an empty one, a wrong key, the key
ApiKeys == {None, "", "wrong", API_KEY}

\* what the external capability answers the scorer with
AppContents == {<<PROSE>>, <<JsonText(JDict(EmptyDict))>>, <<JsonText(JNull)>>}

\* what the external call may raise (score_resume raises it again)
ScoreExceptions == {"ExternalCallError", "ResourceExhausted"}

\* what scorer.score_resume(resume_text, job_description) may do: raise at
\* the external call, or handle one of the answers
ScoreOutcomes(text) ==
    {Logged("Resume scoring failed", Raised(exc)) : exc \in ScoreExceptions}
    \cup {HandleContent(text, analyze_ats_compatibility(text), c) : c \in AppContents}

\* ------------------------- app.py: analyze_resume and analyze_resume_stream

\* A request: events are the server-sent events of generate_analysis so far,
\* response the JSON response of analyze_resume (status 0: none yet), scored
\* the number of calls of scorer.score_resume.
NewRequest(endpoint, api_key, scorer_none, body) ==
    [endpoint |-> endpoint, api_key |-> api_key, scorer_none |-> scorer_none, body |-> body,
     pc |-> "auth",
     pdf_file |-> NoPdf, resume_text |-> <<>>, events |-> <<>>,
     response |-> [status |-> 0, error |-> "", message |-> Lit("")], scored |-> 0]

Progress(stage, progress) == [event |-> "progress", stage |-> stage, progress |-> progress]

\* str(e): the text of the exception, which differs from one exception to
\* another
str(exc) == [str |-> exc]

\* the message of an error event or response that has none
NoMessage == Lit("")

ErrorEvent(error, message) == [event |-> "error", error |-> error, message |-> message]

ResultEvent(analysis_result) == [event |-> "result", data |-> analysis_result]

GENERIC_MESSAGE == Lit("An error occurred while analyzing the resume. Please try again.")

\* yield: generate_analysis sends the events (analyze_resume has none)
Yield(req, evs) ==
    IF req.endpoint = "analyze_resume_stream" THEN [req EXCEPT !.events = @ \o evs] ELSE req

\* the request ends with an error: an error event, or a JSON error response
\* (stream_message in the event, message in the response)
Fail(req, status, error, stream_message, message) ==
    IF req.endpoint = "analyze_resume_stream"
    THEN [req EXCEPT !.pc = "done", !.events = @ \o <<ErrorEvent(error, stream_message)>>]
    ELSE [req EXCEPT !.pc = "done",
                     !.response = [status |-> status, error |-> error, message |-> message]]

InitApp ==
    /\ ScorerIdle
    /\ ChatIdle
    /\ request \in {NewRequest(endpoint, api_key, scorer_none, body) :
                       endpoint \in {"analyze_resume", "analyze_resume_stream"},
                       api_key \in ApiKeys, scorer_none \in BOOLEAN, body \in Bodies}

\* the decorator answers by itself, with a JSON response at either endpoint
Refuse(req, status, error, message) ==
    [req EXCEPT !.pc = "done",
                !.response = [status |-> status, error |-> error, message |-> message]]

AuthenticatePresenceOnly ==
    /\ request.pc = "auth"
    /\ request' =
           IF request.api_key \in {None, ""}
           THEN Refuse(request, 401, "Authentication required",
                       Lit("X-API-Key header is required"))
           ELSE [request EXCEPT !.pc = "receive"]
    /\ UNCHANGED <<scorerVars, chatVars>>

\* middleware/auth.py, require_api_key: decorated_function
Authenticate ==
    /\ request.pc = "auth"
    /\ request' =
           IF request.api_key \in {None, ""}
           THEN Refuse(request, 401, "Authentication required",
                       Lit("X-API-Key header is required"))
           ELSE IF request.api_key # API_KEY
           THEN Refuse(request, 403, "Authentication failed", Lit("Invalid API key"))
           ELSE [request EXCEPT !.pc = "receive"]
    /\ UNCHANGED <<scorerVars, chatVars>>

\* lines 79-101 (223-250): the checks of the service and of the body
Receive ==
    /\ request.pc = "receive"
    /\ request' =
           IF request.scorer_none
           THEN Fail(request, 503, "Service unavailable", NoMessage,
                     Lit("Resume scoring service is not properly configured. Please check GOOGLE_API_KEY."))
           ELSE IF ~request.body.is_json
           THEN Fail(request, 400, "Invalid request", NoMessage,
                     Lit("Content-Type must be application/json"))
           ELSE IF ~request.body.is_object
           THEN Fail(request, 500, "Internal server error", str("TypeError"),
                     Lit("An unexpected error occurred. Please try again later."))
           ELSE IF ~request.body.has_file
           THEN Fail(request, 400,
                     IF request.endpoint = "analyze_resume_stream"
                     THEN "Missing required field: file" ELSE "Invalid request",
                     NoMessage, Lit("Missing required field: file (base64 encoded PDF)"))
           ELSE Yield([request EXCEPT !.pc = "decode"], <<Progress("decoding", 0)>>)
    /\ UNCHANGED <<scorerVars, chatVars>>

\* lines 103-113 (253-261): decode_base64_pdf
Decode ==
    /\ request.pc = "decode"
    /\ LET pdf_file == decode_base64_pdf(request.body.file)
       IN  request' =
               IF pdf_file.raised
               THEN Fail(request, 400, "Invalid PDF", str(pdf_file.exc), str(pdf_file.exc))
               ELSE Yield([request EXCEPT !.pc = "extract", !.pdf_file = pdf_file.value],
                          <<Progress("decoding", 15), Progress("extracting", 15)>>)
    /\ UNCHANGED <<scorerVars, chatVars>>

\* lines 115-125 (264-278): extract_text_from_pdf
Extract ==
    /\ request.pc = "extract"
    /\ LET resume_text_ == extract_text_from_pdf(request.pdf_file)
       IN  request' =
               IF resume_text_.raised
               THEN Fail(request, 400,
                         IF request.endpoint = "analyze_resume_stream"
                               \/ resume_text_.exc = "ValueError"
                         THEN "PDF extraction failed" ELSE "PDF processing failed",
                         str(resume_text_.exc),
                         IF resume_text_.exc = "ValueError" THEN str(resume_text_.exc)
                         ELSE Lit("Unable to extract text from PDF. Please ensure it is not password-protected or corrupted."))
               ELSE Yield([request EXCEPT !.pc = "validate",
                                          !.resume_text = resume_text_.value],
                          <<Progress("extracting", 30), Progress("validating", 30)>>)
    /\ UNCHANGED <<scorerVars, chatVars>>

ValidateContentAiFirst ==
    /\ request.pc = "validate"
    /\ request' =
           IF validate_pdf_content(request.resume_text).raised
           THEN Fail(request, 400, "Invalid resume content", str("ValueError"),
                     str("ValueError"))
           ELSE Yield([request EXCEPT !.pc = "score"],
                      <<Progress("validating", 35), Progress("ai_analysis", 55),
                        Progress("ats_analysis", 35), Progress("ai_analysis", 70),
                        Progress("ai_analysis", 85)>>)
    /\ UNCHANGED <<scorerVars, chatVars>>

\* lines 127-145 (281-288): validate_pdf_content, then the progress events
\* sent ahead of the scoring
ValidateContent ==
    /\ request.pc = "validate"
    /\ request' =
           IF validate_pdf_content(request.resume_text).raised
           THEN Fail(request, 400, "Invalid resume content", str("ValueError"),
                     str("ValueError"))
           ELSE Yield([request EXCEPT !.pc = "score"],
                      <<Progress("validating", 35), Progress("ats_analysis", 35),
                        Progress("ai_analysis", 55), Progress("ai_analysis", 70),
                        Progress("ai_analysis", 85)>>)
    /\ UNCHANGED <<scorerVars, chatVars>>

ScoringFailedSilently(req, exc) == [req EXCEPT !.pc = "done"]

\* lines 174-176 (310-315): except Exception around scorer.score_resume
ScoringFailed(req, exc) == Fail(req, 500, "Analysis failed", str(exc), GENERIC_MESSAGE)

\* lines 148-176 (291-315): scorer.score_resume and the answer
Score ==
    /\ request.pc = "score"
    /\ \E analysis_result \in ScoreOutcomes(request.resume_text) :
           LET scored == [request EXCEPT !.scored = @ + 1]
           IN  request' =
                   IF analysis_result.raised THEN ScoringFailed(scored, analysis_result.exc)
                   ELSE IF request.endpoint = "analyze_resume_stream"
                   THEN [scored EXCEPT !.pc = "done",
                                       !.events = @ \o <<Progress("finalizing", 90),
                                                         Progress("complete", 100),
                                                         ResultEvent(analysis_result.value)>>]
                   ELSE [scored EXCEPT !.pc = "done",
                                       !.response = [status |-> 200, error |-> "",
                                                     message |-> NoMessage]]
    /\ UNCHANGED <<scorerVars, chatVars>>

NextApp == Authenticate \/ Receive \/ Decode \/ Extract \/ ValidateContent \/ Score

SpecApp == InitApp /\ [][NextApp]_vars

\* ------------------------------------------------------ claims: endpoints

StageOrder ==
    <<"decoding", "extracting", "validating", "ats_analysis", "ai_analysis", "finalizing",
      "complete">>

\* the bounds of the progress value, by stage
StageBounds ==
    [decoding |-> <<0, 15>>, extracting |-> <<15, 30>>, validating |-> <<30, 35>>,
     ats_analysis |-> <<35, 55>>, ai_analysis |-> <<55, 90>>, finalizing |-> <<90, 100>>,
     complete |-> <<100, 100>>]

Rank(stage) == CHOOSE k \in 1..Len(StageOrder) : StageOrder[k] = stage

\* C19: the progress events of /analyze-resume-stream come in the stage order
\* decoding, extracting, validating, ats_analysis, ai_analysis, finalizing,
\* complete, each progress value within the bounds of its stage and never
\* below the one before; the result event comes right after complete(100).
C19_ProgressInStageOrder ==
    LET events == request.events
        progress == SelectSeq(events, LAMBDA e : e.event = "progress")
    IN  /\ \A k \in 1..Len(progress) :
               /\ progress[k].stage \in DOMAIN StageBounds
               /\ progress[k].progress >= StageBounds[progress[k].stage][1]
               /\ progress[k].progress <= StageBounds[progress[k].stage][2]
        /\ \A k \in 1..(Len(progress) - 1) :
               /\ Rank(progress[k].stage) <= Rank(progress[k + 1].stage)
               /\ progress[k].progress <= progress[k + 1].progress
        /\ \A k \in 1..Len(events) :
               events[k].event = "result" =>
                   /\ k > 1 /\ events[k - 1] = Progress("complete", 100)
                   /\ \A j \in 1..(k - 1) : events[j].event = "progress"

\* C19 witness: a stream that went through every stage and sent the result.
C19_Witness ==
    /\ request.endpoint = "analyze_resume_stream"
    /\ request.pc = "done"
    /\ Len(request.events) = 13
    /\ request.events[13].event = "result"
    /\ {request.events[k].stage : k \in 1..12} = DOMAIN StageBounds

\* the characters of the text that are no whitespace
NonBlankChars(text) ==
    SumOver([i \in 1..Len(text) |->
                IF IsSpace(text[i]) THEN 0
                ELSE text[i].n * (ChunkLen(text[i].s) - (ChunkWords(text[i].s) - 1))],
            Len(text))

\* the request got to the file, which could not be decoded, or not be read,
\* or whose text is found too short by short
InputError(short(_)) ==
    /\ request.api_key = API_KEY
    /\ ~request.scorer_none /\ request.body.is_json /\ request.body.has_file
    /\ LET pdf_file == decode_base64_pdf(request.body.file)
       IN  \/ pdf_file.raised
           \/ extract_text_from_pdf(pdf_file.value).raised
           \/ short(extract_text_from_pdf(pdf_file.value).value)

\* the request has ended with the answer of an input error
InputErrorAnswer ==
    IF request.endpoint = "analyze_resume_stream"
    THEN /\ request.events # <<>>
         /\ request.events[Len(request.events)].event = "error"
         /\ request.events[Len(request.events)].error
                \in {"Invalid PDF", "PDF extraction failed", "Invalid resume content"}
    ELSE /\ request.response.status = 400
         /\ request.response.error \in {"Invalid PDF", "PDF extraction failed",
                                        "PDF processing failed", "Invalid resume content"}

FewNonBlank(text) == NonBlankChars(text) < 50

ShortWhenStripped(text) == text = <<>> \/ StrLen(Strip(text)) < 50

\* C20 as claimed: a file that cannot be decoded or read, or whose text has
\* fewer than 50 non-blank characters, ends the request with an input error,
\* score_resume never called.
C20_FewNonBlankNeverScored ==
    InputError(FewNonBlank) =>
        /\ request.scored = 0
        /\ request.pc = "done" => InputErrorAnswer

\* C20 amended: the same, the text being too short when it is empty or has
\* fewer than 50 characters once leading and trailing whitespace is stripped
\* (blanks inside the text count).
C20_ShortStrippedNeverScored ==
    InputError(ShortWhenStripped) =>
        /\ request.scored = 0
        /\ request.pc = "done" => InputErrorAnswer

\* C20 witness: a text of 55 characters, 47 when stripped, was refused, and
\* score_resume was not called.
C20_Witness ==
    /\ request.pc = "done"
    /\ InputError(ShortWhenStripped)
    /\ StrLen(request.resume_text) >= 50
    /\ request.scored = 0
    /\ request.response.status = 400
    /\ request.response.error = "Invalid resume content"

\* what the client is told of a failure: the last event of the stream, or
\* the JSON response
ClientError(req) ==
    IF req.endpoint = "analyze_resume_stream" THEN req.events[Len(req.events)]
    ELSE req.response

\* C21: when score_resume raises, what the client is told is the same whatever
\* the exception: with any other exception in place of the one raised, the
\* error event (the error response of /analyze-resume) would be the same.
C21_ScoringErrorSameForAnyException ==
    [][(request.pc = "score" /\ request'.pc = "done"
            /\ ((request'.events # <<>> /\ ClientError(request').event = "error")
                \/ request'.response.status = 500))
        => \A exc \in ScoreExceptions :
               ClientError(request')
                   = ClientError(ScoringFailed([request EXCEPT !.scored = @ + 1], exc))]_vars

\* ---------------------------------------- the context of a single first turn

\* the snapshots a first turn may bring: each of the scores and the strengths
\* present or absent, the job match score at the ends of its range
SnapshotValues ==
    [overall_score |-> {JInt(70)},
     ats_score |-> {JInt(80)},
     job_match_score |-> {JInt(0), JInt(1), JInt(100)},
     strengths |-> {JList(<<"k1">>)}]

Snapshots ==
    UNION { [K -> UNION {SnapshotValues[k] : k \in K}] : K \in SUBSET DOMAIN SnapshotValues }

ValidSnapshots ==
    {JDict(d) : d \in {s \in Snapshots : \A k \in DOMAIN s : s[k] \in SnapshotValues[k]}}

InitContext ==
    /\ ScorerIdle
    /\ AppIdle
    /\ sessions = <<>>
    /\ memories = <<>>
    /\ turns \in {<<NewTurn(kind, "s1", Message(1), analysis_data)>> :
                     kind \in Calls, analysis_data \in ValidSnapshots}

NextContext ==
    \/ SessionCheck(1)
    \/ SessionCreate(1)
    \/ SessionFetch(1)
    \/ LoadMemory(1)
    \/ CallReturns(1, {Reply(1)})
    \/ CallRaises(1)
    \/ SaveHuman(1)
    \/ SaveAI(1)

SpecContext == InitContext /\ [][NextContext]_vars

\* the labels of the lines of a rendered context
Labels(resume_context) == {resume_context[k].label : k \in 1..Len(resume_context)}

\* C22: the rendered context has the overall and the ATS score line, and the
\* job match score line exactly when the snapshot has a job_match_score, be
\* it 0.
C22_JobMatchLineIffPresent ==
    turns[1].pc \in {"load", "call", "save_human", "save_ai"} =>
        /\ {"Overall Score: ", "ATS Score: "} \subseteq Labels(turns[1].resume_context)
        /\ "Job Match Score: " \in Labels(turns[1].resume_context)
               <=> "job_match_score" \in DOMAIN turns[1].session.analysis.d

\* ------------------------------------------- the Rule Engine, call after call

\* texts analysed again and again: two special characters, one, none
EngineTexts ==
    { <<Word("<STAR>"), Word("<BULLET>")>>, <<Word("<BULLET>")>>, <<Filler(100)>>,
      <<Word("Experience Education Skills"), Word("jo@ex.com")>> }

\* a process with one ATSAnalyzer instance that lives as long as it does
InitEngine ==
    /\ pc = "ats_start"
    /\ resume_text = <<>>
    /\ job_description = None
    /\ analyzer = NewAnalyzer
    /\ ats_results = None
    /\ content = None
    /\ result = None
    /\ outcome = None
    /\ hash_seed \in {0, 1}
    /\ invoked = "no"
    /\ reports = <<>>
    /\ ChatIdle
    /\ AppIdle

\* analyzer.analyze(text) on the instance of the process
AnalyzeOnInstance ==
    /\ Len(reports) < MaxAnalyses
    /\ \E text \in EngineTexts :
           /\ resume_text' = text
           /\ analyzer' = analyze(analyzer, text)
           /\ ats_results' = Report(analyzer')
           /\ reports' = Append(reports, [text |-> text, report |-> ats_results'])
    /\ pc' = "ats_done"
    /\ UNCHANGED <<job_description, content, result, outcome, hash_seed, invoked>>
    /\ UNCHANGED <<chatVars, appVars>>

\* analyze_ats_compatibility(text): an analyzer of its own
AnalyzeOnFresh ==
    /\ Len(reports) < MaxAnalyses
    /\ \E text \in EngineTexts :
           /\ resume_text' = text
           /\ ats_results' = Report(analyze(NewAnalyzer, text))
           /\ reports' = Append(reports, [text |-> text, report |-> ats_results'])
    /\ pc' = "ats_done"
    /\ UNCHANGED <<analyzer, job_description, content, result, outcome, hash_seed, invoked>>
    /\ UNCHANGED <<chatVars, appVars>>

\* the server is started again: a new process, with its own string hashing
\* and a new instance
Restart ==
    /\ reports # <<>>
    /\ Len(reports) < MaxAnalyses
    /\ pc' = "ats_start"
    /\ hash_seed' \in {0, 1}
    /\ analyzer' = NewAnalyzer
    /\ UNCHANGED <<resume_text, job_description, ats_results, content, result, outcome,
                   invoked, reports>>
    /\ UNCHANGED <<chatVars, appVars>>

NextEngine == AnalyzeOnInstance \/ AnalyzeOnFresh \/ Restart

SpecEngine == InitEngine /\ [][NextEngine]_vars

\* C23: two analyses of the same text return the same report (score, issues
\* and recommendations, in the same order), whichever analyzer made them and
\* whatever was analysed in between.
C23_SameTextSameReport ==
    \A i, j \in 1..Len(reports) :
        reports[i].text = reports[j].text => reports[i].report = reports[j].report

\* ------------------------------------------- the Rule Engine, rule by rule

\* the parts of texts of about 50 words: filler, the section names under two
\* headings, contact data, a date, verbs, a bullet
FiftyWordParts ==
    { Filler(46), Filler(47), Word("Work History Education Skills"),
      Word("Experience Education Skills"), Word("jo@ex.com"), Word("2020"),
      Word("Led managed built"), Word("<BULLET>") }

\* the parts of texts of few lines: line breaks, a word of 6 characters, a
\* line of 23
LineParts == {NL, Word("Skills"), Filler(4)}

RuleTexts == SeqsUpTo(FiftyWordParts, MaxTokens) \cup SeqsUpTo(LineParts, MaxLines)

InitRules ==
    /\ pc = "ats_start"
    /\ resume_text \in RuleTexts
    /\ job_description = None
    /\ analyzer = NewAnalyzer
    /\ ats_results = None
    /\ content = None
    /\ result = None
    /\ outcome = None
    /\ hash_seed \in {0, 1}
    /\ invoked = "no"
    /\ reports = <<>>
    /\ ChatIdle
    /\ AppIdle

SpecRules == InitRules /\ [][NextATS]_vars

\* the four deductions of a short text without contact data and dates
FourIssues ==
    <<"Resume is too short (less than 100 words)", "No email address detected",
      "No phone number detected", "No dates found in resume">>

\* the text has 50 words, no email, no phone number and no date, and the
\* analysis of it has found nothing else to deduct for
FiftyBareWords ==
    /\ pc = "ats_done"
    /\ WordCount(resume_text) = 50
    /\ \A i \in 1..Len(resume_text) :
           /\ ~ChunkHasEmail(resume_text[i].s)
           /\ ~ChunkHasPhone(resume_text[i].s)
           /\ ~ChunkHasYear(resume_text[i].s)
    /\ \A k \in 1..Len(ats_results.ats_issues) :
           \E f \in 1..Len(FourIssues) : ats_results.ats_issues[k] = FourIssues[f]

\* the bonuses of a text: standard sections, action verbs, bullets
Bonuses(text) ==
    LET sections_found == Cardinality({section \in STANDARD_SECTIONS : InLower(section, text)})
        found_verbs == Cardinality({verb \in action_verbs : InLower(verb, text)})
    IN  (IF sections_found >= 4 THEN 10 ELSE IF sections_found >= 3 THEN 5 ELSE 0)
        + (IF found_verbs >= 3 THEN 5 ELSE 0)
        + (IF CharIn("<BULLET>", text) \/ CharIn("-", text) \/ CharIn("*", text) THEN 5 ELSE 0)

\* C24 as claimed: such a text gets 100 - 20 - 15 - 5 - 5 = 55, with exactly
\* 4 issues.
C24_FiftyBareWordsScore55 ==
    FiftyBareWords => ats_results.ats_score = 55 /\ Len(ats_results.ats_issues) = 4

\* C24 amended: such a text gets 55 plus the bonuses it earns (standard
\* sections, action verbs, bullets), 55 when it earns none, with exactly the
\* 4 issues, in the order of the checks.
C24_FiftyBareWordsScore55PlusBonuses ==
    FiftyBareWords =>
        /\ ats_results.ats_score = 55 + Bonuses(resume_text)
        /\ ats_results.ats_issues = FourIssues

\* C24 witness: 50 words under the headings Work History, Education, Skills:
\* no bonus, 55.
C24_Witness ==
    /\ FiftyBareWords
    /\ Bonuses(resume_text) = 0
    /\ ats_results.ats_score = 55
    /\ Len(ats_results.ats_issues) = 4

\* the lines of the text that are not empty once stripped
NonEmptyLines(text) ==
    SelectSeq(SplitLines(text), LAMBDA line : StrLen(Strip(line)) > 0)

\* C27: the multi-column deduction is made exactly when more than 30% of the
\* non-empty lines of the text are shorter than 20 characters.
C27_ShortLinesAmongNonEmpty ==
    pc = "ats_done" =>
        LET lines == NonEmptyLines(resume_text)
            short == {i \in 1..Len(lines) : StrLen(Strip(lines[i])) < 20}
            issues == {ats_results.ats_issues[k] : k \in 1..Len(ats_results.ats_issues)}
        IN  "Many short lines detected (possible multi-column layout)" \in issues
                <=> 10 * Cardinality(short) > 3 * Len(lines)

\* ------------------------------ ResumeChatService: the life of its sessions

\* the next call, made when the one before has returned: a message, streamed
\* or not, with the assessment of the moment, or clear_session
StartLifecycleCall ==
    /\ Len(turns) < MaxCalls
    /\ \A j \in 1..Len(turns) : turns[j].pc = "done"
    /\ LET i == Len(turns) + 1
       IN  \E session_id \in SessionIds :
               \/ \E kind \in Calls :
                      turns' = Append(turns, NewTurn(kind, session_id, Message(i),
                                                     Assessment(i)))
               \/ turns' = Append(turns, NewTurn("clear_session", session_id, <<>>, JNull))
    /\ UNCHANGED <<sessions, memories, scorerVars, appVars>>

NextLifecycle == StartLifecycleCall \/ \E i \in 1..Len(turns) : Step(i, {Reply(i)})

SpecLifecycle == InitChat /\ [][NextLifecycle]_vars

\* --------------------------------------- claims: the lifecycle of a session

\* the step is clear_session(session_id) of the call i
Clears(i) ==
    /\ i \in 1..Len(turns)
    /\ turns[i].kind = "clear_session"
    /\ turns[i].pc = "start"
    /\ Len(turns') = Len(turns)
    /\ turns'[i].pc = "done"

\* a step keeps the sessions, but for the one a clear_session removes and
\* the one a first message makes; clear_session raises nothing
SessionsKept ==
    /\ \A i \in 1..Len(turns) :
           Clears(i) =>
               /\ DOMAIN sessions' = DOMAIN sessions \ {turns[i].session_id}
               /\ turns'[i].error = "" /\ ~turns'[i].raised
               /\ memories' = memories
    /\ \A session_id \in DOMAIN sessions :
           \/ session_id \in DOMAIN sessions' /\ sessions'[session_id] = sessions[session_id]
           \/ \E i \in 1..Len(turns) : Clears(i) /\ turns[i].session_id = session_id

\* C25: a session is in the map from the first message with its id until
\* clear_session of that id, which removes that session only and does
\* nothing for an unknown id; the first message after it makes a new session,
\* of empty history and with the assessment of that message.
C25_SessionLifecycle ==
    /\ [](\A session_id \in SessionIds :
            /\ session_id \in DOMAIN sessions
                   <=> \E j \in CallsSince(session_id) : turns[j].pc \notin {"start", "create"}
            /\ \A j \in CallsSince(session_id) :
                   (j = FirstCall(session_id) /\ turns[j].pc \in {"load", "call"}) =>
                       /\ turns[j].session.analysis = turns[j].analysis_data
                       /\ memories[turns[j].session.memory] = <<>>
                       /\ \A k \in 1..(j - 1) : turns[k].session.memory # turns[j].session.memory)
    /\ [][SessionsKept]_vars

\* C25 witness: a session with history was cleared while another one stayed,
\* and the next message with its id is sent an empty history under its own
\* assessment.
C25_Witness ==
    /\ Len(turns) = 3
    /\ Succeeded(1) /\ turns[1].session_id = "s1"
    /\ turns[2].kind = "clear_session" /\ turns[2].session_id = "s1" /\ turns[2].pc = "done"
    /\ turns[3].session_id = "s1" /\ turns[3].pc = "call"
    /\ turns[3].history = <<>>
    /\ turns[3].session.analysis = turns[3].analysis_data
    /\ turns[3].analysis_data # turns[1].analysis_data
    /\ Len(memories[turns[1].session.memory]) = 2

\* the first call with the id since its last clear_session was a message
\* whose external call failed
FirstTurnFailed(session_id) ==
    /\ CallsSince(session_id) # {}
    /\ TurnDone(FirstCall(session_id))
    /\ turns[FirstCall(session_id)].error = "ExternalCallError"

\* C29: a first turn of an unseen id whose external call fails leaves its
\* session in the map, the history empty and the snapshot the assessment of
\* that turn; a later turn of the id, whatever its own assessment, is
\* answered under the context of the failed turn's assessment.
C29_FailedFirstTurnKeepsItsSession ==
    \A session_id \in SessionIds :
        FirstTurnFailed(session_id) =>
            LET i == FirstCall(session_id)
            IN  /\ session_id \in DOMAIN sessions
                /\ sessions[session_id].analysis = turns[i].analysis_data
                /\ i = Len(turns) => memories[sessions[session_id].memory] = <<>>
                /\ \A j \in CallsSince(session_id) :
                       (j > i /\ turns[j].pc \in {"load", "call", "save_human", "save_ai"}) =>
                           /\ turns[j].session.analysis = turns[i].analysis_data
                           /\ turns[j].resume_context
                                  = _build_resume_context(turns[i].analysis_data).value

\* C29 witness: the first turn of s1 has failed, and the second, which brought
\* another assessment, is at the external call with the context of the first.
C29_Witness ==
    /\ Len(turns) = 2
    /\ FirstTurnFailed("s1")
    /\ FirstCall("s1") = 1
    /\ turns[2].session_id = "s1" /\ turns[2].pc = "call"
    /\ turns[2].analysis_data # turns[1].analysis_data
    /\ turns[2].history = <<>>
    /\ turns[2].resume_context = _build_resume_context(turns[1].analysis_data).value
    /\ turns[2].resume_context # _build_resume_context(turns[2].analysis_data).value

\* C28: when two requests bring the first message of one unseen session id
\* at the same time, one session object is stored for the id and both turns
\* run against it: no turn holds another object than the one in the map, and
\* once both have succeeded the session in the map holds both pairs.
C28_OneSessionForConcurrentFirstMessages ==
    \A session_id \in SessionIds :
        (\A j \in 1..Len(turns) :
             turns[j].session_id = session_id => turns[j].kind \in {"chat", "chat_stream"})
        => /\ \A j \in CallsWith(session_id) :
                  turns[j].session.memory # 0 =>
                      /\ session_id \in DOMAIN sessions
                      /\ turns[j].session.memory = sessions[session_id].memory
           /\ (CallsWith(session_id) # {} /\ \A j \in CallsWith(session_id) : Succeeded(j))
                  => Len(memories[sessions[session_id].memory])
                         = 2 * Cardinality(CallsWith(session_id))

\* ------------------------------------- claims: authentication, the stream

\* C26: a request without an X-API-Key header is answered 401 and one with a
\* wrong key is refused, the handler never entered: nothing is decoded,
\* extracted or scored and no event is sent for it.
C26_NoKeyNoHandler ==
    request.api_key # API_KEY =>
        /\ request.pc \in {"auth", "done"}
        /\ request.pdf_file = NoPdf
        /\ request.resume_text = <<>>
        /\ request.events = <<>>
        /\ request.scored = 0
        /\ request.pc = "done" =>
               /\ request.api_key = None => request.response.status = 401
               /\ request.response.status \in {401, 403}

\* C26 witness: a request with a valid PDF and a wrong key has been refused,
\* nothing done with the PDF.
C26_Witness ==
    /\ request.api_key = "wrong"
    /\ request.pc = "done"
    /\ request.response.status = 403
    /\ request.body.has_file
    /\ ~decode_base64_pdf(request.body.file).raised
    /\ ~extract_text_from_pdf(decode_base64_pdf(request.body.file).value).raised
    /\ request.scored = 0

\* result and error end a stream
Terminal(e) == e.event \in {"result", "error"}

\* C30: a run of the generator of /analyze-resume-stream sends one terminal
\* event, a result or an error, and nothing after it: no event follows an
\* error or a result, and a stream with an error has no result.
C30_OneTerminalEventLast ==
    (request.endpoint = "analyze_resume_stream" /\ request.api_key = API_KEY) =>
        /\ \A k \in 1..Len(request.events) :
               Terminal(request.events[k]) => k = Len(request.events)
        /\ request.pc = "done" =>
               /\ request.events # <<>>
               /\ Terminal(request.events[Len(request.events)])

\* C30 witness: a stream that ended with the error of the scoring, after the
\* progress events up to it.
C30_Witness ==
    /\ request.endpoint = "analyze_resume_stream"
    /\ request.pc = "done"
    /\ Len(request.events) = 11
    /\ request.events[11].event = "error"
    /\ request.events[11].error = "Analysis failed"
    /\ \A k \in 1..10 : request.events[k].event = "progress"

====
